---- MODULE Spec2Model ----
(***************************************************************************)
(* Model of the chunk pipeline of minecraft_assessment_server.             *)
(*                                                                         *)
(*   server/chunk_store.py : wire decoder, binary pack/unpack, in-memory   *)
(*                           chunk store, request bookkeeping              *)
(*   server/chunk_processor.py : batching chunk generator with its         *)
(*                           in-process cache and disk spill               *)
(*   server/chunk_cache.py   : LRU cache of compressed chunks              *)
(*   server/chunk_storage.py : region store behind the cache               *)
(*   server/optimized_renderer.py : viewer updates, background loader and  *)
(*                           the queue of new chunks                       *)
(*                                                                         *)
(* Python strings are sequences of one-character strings.  A 32-bit value  *)
(* is the record [hi, lo] of its two 16-bit halves (value = hi*65536+lo),  *)
(* because the model checker's integers are 32-bit signed.  Python's None  *)
(* is the record None, a present value v is Some(v).                       *)
(***************************************************************************)
EXTENDS Integers, Sequences, FiniteSets, TLC

VARIABLES
    data_str,   \* argument of the decode_getchunkdata call under study
    decoded,    \* its outcome: NotCalled, Raised(e) or Returned(pixels, heights)
    pack_in,    \* arguments (pixels, heights) of the pack_chunk_binary call under study
    blob,       \* outcome of pack_chunk_binary
    unpacked,   \* outcome of unpack_chunk_binary(blob)
    CHUNK_STORE,        \* the dict key -> record, as its entries in insertion order
    REQUEST_TO_COORDS,  \* the dict requestId -> (dimension, x, z, y)
    uuids,              \* number of request ids uuid4 has produced so far
    tasks,              \* per connection: the ensure_chunk_present call in progress
    handled,            \* number of handle_chunk_response calls so far
    direct,             \* number of direct store_chunk calls so far
    stored,             \* history: (dimension, x, z, y) of every store_chunk call
    last_response,      \* history: the last handle_chunk_response call and its result
    send_failed,        \* history: the request ids whose websocket.send raised
    batch_size,         \* ChunkProcessor.batch_size
    gpu_available,      \* ChunkProcessor.gpu_available
    max_memory_chunks,  \* ChunkProcessor.max_memory_chunks
    pending_requests,   \* the dict coordinate -> futures, as its entries in insertion order
    batch_queue,        \* the items of the asyncio.Queue, oldest first
    processing_task,    \* None, or the task running _process_batches
    consumer,           \* position of the _process_batches task and its local `batch`
    executor,           \* the ThreadPoolExecutor: "running" or "shutdown"
    stop_call,          \* position of the stop() call of the server's shutdown path
    calls,              \* the process_chunk calls made so far: key, position, future, outcome
    chunk_cache,        \* the dict coordinate -> chunk resident in memory
    chunk_access_time,  \* the coordinates of the dict, least recently accessed first
    chunks_on_disk,     \* the set of coordinates the processor believes are on disk
    chunk_files,        \* the chunk_<x>_<y>_<z>.npz files of the world directory
    index_file,         \* the coordinates listed in chunk_index.json
    generated,          \* history: per coordinate, how many generation calls produced it
    last_generation,    \* history: the batch and outcome of the last _process_chunk_batch
    max_size,           \* ChunkCache.max_size
    cache,              \* ChunkCache.cache: the OrderedDict as its items, oldest first
    lock,               \* ChunkCache.lock: None, or the call holding it
    cache_calls,        \* the get, put and exists calls on the cache made so far
    accessed,           \* history: the coordinates put or hit in the cache, latest last
    chunk_index,        \* ChunkStorage.chunk_index: the coordinates it lists
    region_files,       \* the c.<x>.<y>.<z>.dat files of the data directory
    metadata_file,      \* the coordinates listed in metadata.json
    data_dir_ok,        \* the data directory exists and can be searched and written
    storage_calls,      \* per task: its call on the ChunkStorage in progress
    unflushed,          \* history: saves completed since the last write of metadata.json
    last_saved,         \* history: per coordinate, the data of its last completed save
    last_storage_call,  \* history: the last completed call on the storage and its outcome
    view_distance,      \* OptimizedRenderer.viewer_state.view_distance
    last_chunk_position, \* viewer_state.last_chunk_position: None or a coordinate
    loaded_chunks,      \* OptimizedRenderer.loaded_chunks
    new_chunks_queue,   \* the payloads of the asyncio.Queue, oldest first
    fetches,            \* the _fetch_chunk_data calls made so far, with what follows them
    updates,            \* the update_viewer_position calls made so far
    loader,             \* position of the _load_all_chunks_background task
    drain,              \* the get_new_chunks call of the viewer: its position, the timeout
                        \* of its wait_for and the time it has waited, in ticks of 5 ms
    new_visible         \* the last _get_new_visible_chunks_surface_priority call: None, or
                        \* its center, its view_dist and the set it returned

codec_vars == <<data_str, decoded, pack_in, blob, unpacked>>
store_vars == <<CHUNK_STORE, REQUEST_TO_COORDS, uuids, tasks, handled, direct, stored,
                last_response, send_failed>>
proc_vars == <<batch_size, gpu_available, max_memory_chunks, pending_requests, batch_queue,
               processing_task, consumer, executor, stop_call, calls, chunk_cache,
               chunk_access_time, chunks_on_disk, chunk_files, index_file, generated,
               last_generation>>
lru_vars == <<max_size, cache, lock, cache_calls, accessed>>
disk_vars == <<chunk_index, region_files, metadata_file, data_dir_ok>>
direct_vars == <<storage_calls, unflushed, last_saved, last_storage_call>>
cache_vars == <<max_size, cache, lock, cache_calls, accessed, chunk_index, region_files,
                metadata_file, data_dir_ok, storage_calls, unflushed, last_saved,
                last_storage_call>>
render_vars == <<view_distance, last_chunk_position, loaded_chunks, new_chunks_queue,
                 fetches, updates, loader, drain, new_visible>>
vars == <<data_str, decoded, pack_in, blob, unpacked, CHUNK_STORE, REQUEST_TO_COORDS,
          uuids, tasks, handled, direct, stored, last_response, send_failed, batch_size,
          gpu_available, max_memory_chunks, pending_requests, batch_queue, processing_task, consumer,
          executor, stop_call, calls, chunk_cache, chunk_access_time, chunks_on_disk,
          chunk_files, index_file, generated, last_generation, max_size, cache, lock,
          cache_calls, accessed, chunk_index, region_files, metadata_file, data_dir_ok,
          storage_calls, unflushed, last_saved, last_storage_call, view_distance,
          last_chunk_position, loaded_chunks, new_chunks_queue, fetches, updates, loader,
          drain, new_visible>>

-----------------------------------------------------------------------------
(* Program constants of chunk_store.py *)

ChunkLen == 256
TokenLen == 6
RawLen == 4

-----------------------------------------------------------------------------
(* Bounds of the model *)

MaxElems == 3
NumConns == 2       \* Minecraft connections
MaxRequests == 2    \* chunk requests sent in one run
MaxResponses == 1   \* chunk responses handled in one run
MaxStoreCalls == 1  \* direct store_chunk calls in one run
MaxCoord == 1       \* chunk coordinates (x, 0, 0) with x in 0..MaxCoord
MaxCalls == 3       \* process_chunk calls in one run
MaxCancels == 1     \* process_chunk calls cancelled by their caller in one run
MaxBatchSize == 2   \* largest batch_size argument of the constructor
GpuBatchFactor == 1 \* batch_size multiplier of a GPU build (20 in __init__), scaled down
MaxMemoryChunks == 1 \* largest memory budget, in chunks
MaxNoise == 1       \* distinct outcomes of the random ore scatter of one chunk, minus one
MaxCacheSize == 2   \* largest max_size of the cache
MaxCacheCoord == 2  \* the cache is asked for the chunks (x, 0, 0) with x in 0..MaxCacheCoord
MaxCacheCalls == 4  \* calls on the cache in one run, prefetched gets included
MaxInFlight == 2    \* calls on the cache in progress at the same time
MaxData == 2        \* distinct chunk arrays handed to the cache
NumStorageTasks == 2 \* tasks calling the ChunkStorage directly
MaxViewDistance == 0 \* largest view distance of the renderer, in chunks
MaxCenter == 1      \* the viewer is in chunk (x, 4, 0) with x in 0..MaxCenter
MaxUpdates == 2     \* update_viewer_position calls in one run
MaxTimeout == 2     \* largest timeout argument of get_new_chunks, in ticks of 5 ms
MaxSpillCoord == 3  \* SpecSpill asks for the chunks (x, 0, 0) with x in 0..MaxSpillCoord
MaxSpillCalls == 4  \* process_chunk calls in one run of SpecSpill
MaxFreeGb == 2      \* available memory when the renderer is constructed, in GiB
MaxSetDistance == 9 \* largest argument of set_view_distance
MaxCenterY == 7     \* the viewer of SpecVisible is in chunk (0, y, 0) with y in 0..MaxCenterY
QueueMax == 1       \* maxsize of the queue of new chunks (1000 in __init__), scaled down

-----------------------------------------------------------------------------
(* Outcomes of a call *)

NotCalled == [st |-> "not_called"]
Raised(e) == [st |-> "raised", err |-> e]
Returned(p, h) == [st |-> "returned", pixels |-> p, heights |-> h]

-----------------------------------------------------------------------------
(* Python string helpers.  Values computed once and used several times are *)
(* passed as operator parameters.                                          *)

IsSpace(c) == c \in {" ", "\t", "\n", "\r"}

Min(S) == CHOOSE m \in S : \A k \in S : m <= k
Max(S) == CHOOSE m \in S : \A k \in S : m >= k

\* the part of s between the first and the last position in keep
Between(s, keep) == IF keep = {} THEN <<>> ELSE SubSeq(s, Min(keep), Max(keep))

\* str.strip(): drop leading and trailing whitespace
StripWs(s) == Between(s, {i \in 1..Len(s) : ~IsSpace(s[i])})

\* str.strip(ch): drop every leading and trailing occurrence of ch
StripChar(s, ch) == Between(s, {i \in 1..Len(s) : s[i] # ch})

\* str.split(sep) for a one-character separator: always at least one part,
\* empty parts are kept
SplitOn(s, sep) ==
    LET RECURSIVE go(_, _, _)
        go(i, cur, acc) ==
            IF i > Len(s) THEN Append(acc, cur)
            ELSE IF s[i] = sep THEN go(i + 1, <<>>, Append(acc, cur))
            ELSE go(i + 1, Append(cur, s[i]), acc)
    IN go(1, <<>>, <<>>)

\* [e for e in parts if e != '']
NonEmpty(parts) == SelectSeq(parts, LAMBDA e : e # <<>>)

Digits == <<"0", "1", "2", "3", "4", "5", "6", "7", "8", "9">>
IsDigit(c) == \E i \in 1..10 : Digits[i] = c
DigitVal(c) == (CHOOSE i \in 1..10 : Digits[i] = c) - 1

\* decimal digits in which single underscores may separate digits
IsDecimal(body) ==
    /\ Len(body) >= 1
    /\ IsDigit(body[1])
    /\ IsDigit(body[Len(body)])
    /\ \A i \in 1..Len(body) : IsDigit(body[i]) \/ body[i] = "_"
    /\ \A i \in 1..(Len(body) - 1) : ~(body[i] = "_" /\ body[i + 1] = "_")

DecimalVal(body) ==
    LET RECURSIVE val(_, _)
        val(i, acc) ==
            IF i > Len(body) THEN acc
            ELSE IF body[i] = "_" THEN val(i + 1, acc)
            ELSE val(i + 1, acc * 10 + DigitVal(body[i]))
    IN val(1, 0)

PyIntBody(body, negative) ==
    IF ~IsDecimal(body) THEN [ok |-> FALSE, val |-> 0]
    ELSE [ok |-> TRUE, val |-> IF negative THEN 0 - DecimalVal(body) ELSE DecimalVal(body)]

PyIntStripped(t) ==
    IF Len(t) >= 1 /\ t[1] \in {"+", "-"}
    THEN PyIntBody(SubSeq(t, 2, Len(t)), t[1] = "-")
    ELSE PyIntBody(t, FALSE)

\* int(s) for a str: surrounding whitespace, an optional sign, then decimal
\* digits.  [ok, val]; ok is FALSE where Python raises ValueError.
PyInt(s) == PyIntStripped(StripWs(s))

-----------------------------------------------------------------------------
(* base64.b64decode(token + '==') as called by decode_getchunkdata: the     *)
(* non-validating decoder skips characters outside the alphabet, stops at   *)
(* a completed pad sequence and raises when data characters are left over.  *)

B64Alphabet ==
    <<"A", "B", "C", "D", "E", "F", "G", "H", "I", "J", "K", "L", "M",
      "N", "O", "P", "Q", "R", "S", "T", "U", "V", "W", "X", "Y", "Z",
      "a", "b", "c", "d", "e", "f", "g", "h", "i", "j", "k", "l", "m",
      "n", "o", "p", "q", "r", "s", "t", "u", "v", "w", "x", "y", "z",
      "0", "1", "2", "3", "4", "5", "6", "7", "8", "9", "+", "/">>

IsB64(c) == \E i \in 1..64 : B64Alphabet[i] = c
B64Val(c) == (CHOOSE i \in 1..64 : B64Alphabet[i] = c) - 1

\* one data character d read at position quad of the current group of four
B64Char(d, quad, left, out) ==
    CASE quad = 0 -> [quad |-> 1, left |-> d, out |-> out]
      [] quad = 1 -> [quad |-> 2, left |-> d % 16, out |-> Append(out, left * 4 + d \div 16)]
      [] quad = 2 -> [quad |-> 3, left |-> d % 4, out |-> Append(out, left * 16 + d \div 4)]
      [] quad = 3 -> [quad |-> 0, left |-> 0, out |-> Append(out, left * 64 + d)]

\* [ok, bytes]: ok is FALSE where b64decode raises binascii.Error
b64decode(s) ==
    LET RECURSIVE go(_, _, _)
        go(i, pads, st) ==
            IF i > Len(s) THEN [ok |-> st.quad = 0, bytes |-> st.out]
            ELSE IF s[i] = "=" THEN
                IF st.quad >= 2 /\ st.quad + pads + 1 >= 4
                THEN [ok |-> TRUE, bytes |-> st.out]
                ELSE go(i + 1, IF st.quad >= 2 THEN pads + 1 ELSE pads, st)
            ELSE IF ~IsB64(s[i]) THEN go(i + 1, pads, st)
            ELSE go(i + 1, 0, B64Char(B64Val(s[i]), st.quad, st.left, st.out))
    IN go(1, 0, [quad |-> 0, left |-> 0, out |-> <<>>])

-----------------------------------------------------------------------------
(* 32-bit values *)

\* struct.unpack('<I', raw)[0]
unpack_u32_le(raw) == [hi |-> raw[4] * 256 + raw[3], lo |-> raw[2] * 256 + raw[1]]

\* faulty variant: the height is taken from byte 2 instead of byte 3
HeightOf_Byte2(value) == value.hi % 256

\* (value & 0xFF000000) >> 24
HeightOf(value) == value.hi \div 256

\* (value & 0x00FFFFFF) | 0xFF000000
ArgbOf(value) == [hi |-> (value.hi % 256) + 255 * 256, lo |-> value.lo]

-----------------------------------------------------------------------------
(* decode_getchunkdata *)

\* the repeat count when the element has exactly one '*': int(parts[1]),
\* with a ValueError or a negative count replaced by 0
RepeatOf(r) == IF r.ok /\ r.val >= 0 THEN r.val ELSE 0

\* the repeat count of one element
DupCount(parts) == IF Len(parts) = 2 THEN RepeatOf(PyInt(parts[2])) ELSE 0

Failed(e) == [err |-> e, value |-> [hi |-> 0, lo |-> 0], record |-> FALSE]

\* a 6-character token: the four decoded bytes as a little-endian uint32,
\* recorded under the current index
FromBase64(d) ==
    IF ~d.ok THEN Failed("ValueError")
    ELSE IF Len(d.bytes) # RawLen THEN Failed("ValueError")
    ELSE [err |-> "", value |-> unpack_u32_le(d.bytes), record |-> TRUE]

\* faulty variant: an unknown index resolves to 0 (index_to_data.get(ref_index, 0))
FromRef_Default(r, index_to_data) ==
    IF ~r.ok THEN Failed("ValueError")
    ELSE IF r.val \notin DOMAIN index_to_data
         THEN [err |-> "", value |-> [hi |-> 0, lo |-> 0], record |-> FALSE]
    ELSE [err |-> "", value |-> index_to_data[r.val], record |-> FALSE]

\* any other token: the index of a recorded element
FromRef(r, index_to_data) ==
    IF ~r.ok THEN Failed("ValueError")
    ELSE IF r.val \notin DOMAIN index_to_data THEN Failed("IndexError")
    ELSE [err |-> "", value |-> index_to_data[r.val], record |-> FALSE]

\* the value a token resolves to, given the indices recorded so far:
\* [err, value, record]; record says whether index_to_data[cur_idx] is set
ResolveToken(token, index_to_data) ==
    IF Len(token) = TokenLen
    THEN FromBase64(b64decode(token \o <<"=", "=">>))
    ELSE FromRef(PyInt(token), index_to_data)

\* index_to_data[cur_idx] = value
Record(index_to_data, cur_idx, value) ==
    [k \in DOMAIN index_to_data \cup {cur_idx} |->
        IF k = cur_idx THEN value ELSE index_to_data[k]]

\* Emit with the height appended once per element instead of once per slot
Emit_HeightOnce(st, r, dup_count) ==
    IF r.err # "" THEN [st EXCEPT !.err = r.err]
    ELSE [index_to_data |->
             IF r.record THEN Record(st.index_to_data, st.cur_idx, r.value)
             ELSE st.index_to_data,
          pixels |-> st.pixels \o [k \in 1..(dup_count + 1) |-> ArgbOf(r.value)],
          heights |-> Append(st.heights, HeightOf(r.value)),
          cur_idx |-> st.cur_idx + dup_count + 1,
          err |-> ""]

\* "for _ in range(dup_count + 1)": append the pair, advance cur_idx
Emit(st, r, dup_count) ==
    IF r.err # "" THEN [st EXCEPT !.err = r.err]
    ELSE [index_to_data |->
             IF r.record THEN Record(st.index_to_data, st.cur_idx, r.value)
             ELSE st.index_to_data,
          pixels |-> st.pixels \o [k \in 1..(dup_count + 1) |-> ArgbOf(r.value)],
          heights |-> st.heights \o [k \in 1..(dup_count + 1) |-> HeightOf(r.value)],
          cur_idx |-> st.cur_idx + dup_count + 1,
          err |-> ""]

DecodeParts(parts, st) ==
    Emit(st, ResolveToken(parts[1], st.index_to_data), DupCount(parts))

\* one iteration of "for elem in elems"
DecodeElem(elem, st) == DecodeParts(SplitOn(elem, "*"), st)

RECURSIVE DecodeLoop(_, _, _)
DecodeLoop(elems, i, st) ==
    IF i > Len(elems) \/ st.err # "" THEN st
    ELSE DecodeLoop(elems, i + 1, DecodeElem(elems[i], st))

\* faulty variant: the final length check is missing
LengthOk_Unchecked(pixels) == TRUE

\* if len(pixels) != 256: raise
LengthOk(pixels) == Len(pixels) = ChunkLen

DecodeResult(st) ==
    IF st.err # "" THEN Raised(st.err)
    ELSE IF ~LengthOk(st.pixels) THEN Raised("ValueError")
    ELSE Returned(st.pixels, st.heights)

DecodeStripped(s) ==
    IF s = <<>> THEN Raised("ValueError")
    ELSE DecodeResult(DecodeLoop(NonEmpty(SplitOn(s, ",")), 1,
            [index_to_data |-> <<>>, pixels |-> <<>>, heights |-> <<>>,
             cur_idx |-> 0, err |-> ""]))

decode_getchunkdata(str) == DecodeStripped(StripChar(StripWs(str), "\""))

-----
(* pack_chunk_binary / unpack_chunk_binary *)

PackReturned(b) == [st |-> "returned", bytes |-> b]

Magic == <<67, 72, 78, 75>>      \* b'CHNK'

\* struct.pack('<H', v)
pack_u16_le(v) == <<v % 256, (v \div 256) % 256>>

\* struct.pack('<I', int(p) & 0xFFFFFFFF)
pack_u32_le(p) ==
    LET hi == p.hi % 65536
    IN <<p.lo % 256, p.lo \div 256, hi % 256, hi \div 256>>

\* struct.pack('<B', int(h) & 0xFF)
pack_u8(h) == <<h % 256>>

\* the writes of one loop, w bytes each, one after the other
Concat(chunks, w) ==
    [j \in 1..(w * Len(chunks)) |-> chunks[((j - 1) \div w) + 1][((j - 1) % w) + 1]]

pack_chunk_binary(pixels, heights) ==
    IF Len(pixels) # ChunkLen \/ Len(heights) # ChunkLen THEN Raised("ValueError")
    ELSE PackReturned(
            Magic \o pack_u16_le(1)
                  \o Concat([i \in 1..Len(pixels) |-> pack_u32_le(pixels[i])], 4)
                  \o Concat([i \in 1..Len(heights) |-> pack_u8(heights[i])], 1))

\* faulty variant: the pixel is read big-endian
unpack_from_u32_be(buf, offset) ==
    [hi |-> buf[offset + 1] * 256 + buf[offset + 2],
     lo |-> buf[offset + 3] * 256 + buf[offset + 4]]

\* struct.unpack_from('<I', buf, offset)[0], offset counted from 0
unpack_from_u32_le(buf, offset) ==
    [hi |-> buf[offset + 4] * 256 + buf[offset + 3],
     lo |-> buf[offset + 2] * 256 + buf[offset + 1]]

\* struct.unpack_from('<H', buf, offset)[0]
unpack_from_u16_le(buf, offset) == buf[offset + 2] * 256 + buf[offset + 1]

HeaderLen == 6

unpack_chunk_binary(buf) ==
    IF Len(buf) < 4 + 2 + ChunkLen * 4 + ChunkLen THEN Raised("ValueError")
    ELSE IF SubSeq(buf, 1, 4) # Magic THEN Raised("ValueError")
    ELSE IF unpack_from_u16_le(buf, 4) # 1 THEN Raised("ValueError")
    ELSE Returned([i \in 1..ChunkLen |-> unpack_from_u32_le(buf, HeaderLen + 4 * (i - 1))],
                  [i \in 1..ChunkLen |-> buf[HeaderLen + 4 * ChunkLen + i]])

-----------------------------------------------------------------------------
(* The module state of chunk_store.py right after import *)

\* Python's None and a present value
None == {}
Some(v) == {v}
The(o) == CHOOSE v \in o : TRUE

InitStore ==
    /\ CHUNK_STORE = <<>>
    /\ REQUEST_TO_COORDS = <<>>
    /\ uuids = 0
    /\ tasks = [c \in 1..NumConns |-> None]
    /\ handled = 0
    /\ direct = 0
    /\ stored = {}
    /\ send_failed = {}
    /\ last_response = None

-----------------------------------------------------------------------------
(* A ChunkProcessor right after __init__                                   *)
(*                                                                         *)
(* A chunk is the record of what distinguishes one generated array from    *)
(* another: its coordinate, the path that generated it, and the outcome of *)
(* the random ore scatter.  chunk_access_time holds time.time() stamps; the *)
(* clock is taken to advance between two calls, so the dict is kept as the  *)
(* sequence of its keys in ascending stamp order.                           *)

Coords == {<<x, 0, 0>> : x \in 0..MaxCoord}
Noise == 0..MaxNoise

Chunk(key, path, ores) == [key |-> key, path |-> path, ores |-> ores]

\* an asyncio.Future: st is "pending", "result", "exception" or "cancelled";
\* "none" is a call that has not created its future
NoFuture == [st |-> "none", value |-> None, err |-> ""]
NewFuture == [st |-> "pending", value |-> None, err |-> ""]
Done(fut) == fut.st \in {"result", "exception", "cancelled"}

\* the world directory found by _load_world_index: chunk_index.json and the chunk files
EmptyWorld == [index |-> {}, files |-> <<>>]
Worlds ==
    { EmptyWorld,
      [index |-> {<<0, 0, 0>>}, files |-> (<<0, 0, 0>> :> Chunk(<<0, 0, 0>>, "cpu", 0))],
      [index |-> {<<0, 0, 0>>}, files |-> <<>>] }

NoGeneration == [batch |-> <<>>, gpu |-> "none", cpu |-> "none"]
IdleConsumer == [pc |-> "none", batch |-> <<>>, cancelled |-> FALSE]

ChunkProcessor(batch_size_arg, gpu, memory_chunks, world) ==
    /\ gpu_available = gpu
    /\ batch_size = IF gpu THEN batch_size_arg * GpuBatchFactor ELSE batch_size_arg
    /\ pending_requests = <<>>
    /\ batch_queue = <<>>
    /\ processing_task = None
    /\ consumer = IdleConsumer
    /\ executor = "running"
    /\ stop_call = "idle"
    /\ calls = <<>>
    /\ chunk_cache = <<>>
    /\ chunks_on_disk = world.index
    /\ chunk_files = world.files
    /\ index_file = world.index
    /\ max_memory_chunks = memory_chunks
    /\ chunk_access_time = <<>>
    /\ generated = [k \in Coords |-> 0]
    /\ last_generation = NoGeneration

\* the processor of the specifications that never use it
InitIdleProcessor == ChunkProcessor(1, FALSE, 1, EmptyWorld)

-----------------------------------------------------------------------------------------------------------------------------------------------------
(* A ChunkCache over a ChunkStorage right after their __init__             *)
(*                                                                         *)
(* A chunk array handed to the cache is a number of 1..MaxData.  Bytes      *)
(* made by pickle.dumps and zlib.compress are the tagged pairs              *)
(* <<"pickle", d>> and <<"zlib", b>>; a file opened for writing and not     *)
(* yet written is the empty byte string <<>>.                               *)

Data == 1..MaxData
CacheCoords == {<<x, 0, 0>> : x \in 0..MaxCacheCoord}

pickle_dumps(d) == <<"pickle", d>>
zlib_compress(b) == <<"zlib", b>>
Compressed(d) == zlib_compress(pickle_dumps(d))

\* zlib.decompress then pickle.loads: raises on anything but compressed pickle bytes
Loadable(b) == Len(b) = 2 /\ b[1] = "zlib" /\ Len(b[2]) = 2 /\ b[2][1] = "pickle"
Loaded(b) == b[2][2]

\* bytes that are no zlib stream
Junk == <<"junk">>

MetaEvery == 10      \* ChunkStorage.save writes metadata.json at every 10th index entry

\* the chunks of an earlier run that no call of the model names: one short of the
\* number of entries at which save writes metadata.json
OldCoords == {<<x, 1, 0>> : x \in 1..(MetaEvery - 1)}

\* the data directory found by ChunkStorage._load_metadata
EmptyStore == [index |-> {}, files |-> <<>>]
Stores ==
    { EmptyStore,
      [index |-> {<<0, 0, 0>>}, files |-> (<<0, 0, 0>> :> Compressed(1))] }

\* data directories of earlier runs: also a listed chunk whose file was removed, one
\* whose file is damaged, and an index of nine chunks
Directories ==
    Stores \cup
    { [index |-> {<<0, 0, 0>>}, files |-> <<>>],
      [index |-> {<<0, 0, 0>>}, files |-> (<<0, 0, 0>> :> Junk)],
      [index |-> OldCoords, files |-> [k \in OldCoords |-> Compressed(1)]] }

\* no call on the storage has completed
NoCall == [op |-> "none", key |-> <<0, 0, 0>>, raised |-> FALSE, found |-> FALSE, data |-> 0]

\* no call on the storage in progress
Idle == [op |-> "idle", key |-> <<0, 0, 0>>, data |-> 0, pc |-> "idle"]

ChunkCache(size, store) ==
    /\ max_size = size
    /\ cache = <<>>
    /\ lock = None
    /\ cache_calls = <<>>
    /\ accessed = <<>>
    /\ chunk_index = store.index
    /\ region_files = store.files
    /\ metadata_file = store.index
    /\ data_dir_ok = TRUE
    /\ storage_calls = [t \in 1..NumStorageTasks |-> Idle]
    /\ unflushed = 0
    /\ last_saved = [k \in Coords |-> None]
    /\ last_storage_call = NoCall

\* the cache of the specifications that never use it
InitIdleCache == ChunkCache(1, EmptyStore)

-----------------------------------------------------------------------------
(* An OptimizedRenderer right after __init__ *)

IdleLoader == [pc |-> "idle", all_chunks |-> {}, todo |-> <<>>]

\* no get_new_chunks call in progress
IdleDrain == [pc |-> "idle", timeout |-> 0, waited |-> 0, budget |-> 0, elapsed |-> 0]

OptimizedRenderer(distance) ==
    /\ view_distance = distance
    /\ last_chunk_position = None
    /\ loaded_chunks = {}
    /\ new_chunks_queue = <<>>
    /\ fetches = <<>>
    /\ updates = <<>>
    /\ loader = IdleLoader
    /\ drain = IdleDrain
    /\ new_visible = None

\* the renderer of the specifications that never use it
InitIdleRenderer == OptimizedRenderer(0)

-----------------------------------------------------------------------------
(* Inputs of the codec *)

Join(elems, sep) ==
    LET RECURSIVE go(_)
        go(i) == IF i > Len(elems) THEN <<>>
                 ELSE IF i = 1 THEN elems[1] \o go(2)
                 ELSE <<sep>> \o elems[i] \o go(i + 1)
    IN go(1)

\* wire elements the streams are built from
ElemPool ==
    { <<"A", "A", "A", "A", "A", "A", "*", "2", "5", "3">>,
      <<"A", "Q", "I", "D", "g", "A">>,
      <<"A", "Q", "I", "D", "g", "A", "*", "2", "5", "5">>,
      <<"0">>,
      <<"1">>,
      <<"2", "5", "4">>,
      <<"0", "*", "2", "5", "4">>,
      <<"A", "A", "A", "A", "A", "A", "*", "x">>,
      <<"A", "Q", "I", "D", "g", "A", "*", "1", "*", "1">>,
      <<"A", "Q", "!", "D", "g", "A">>,
      <<"z", "z">> }

RECURSIVE SeqsUpTo(_, _)
SeqsUpTo(S, n) ==
    IF n = 0 THEN {<<>>}
    ELSE LET shorter == SeqsUpTo(S, n - 1)
         IN shorter \cup {Append(q, e) : q \in {r \in shorter : Len(r) = n - 1}, e \in S}

\* the data strings: up to MaxElems elements joined by commas, bare or quoted
Streams ==
    LET bare == {Join(q, ",") : q \in SeqsUpTo(ElemPool, MaxElems)}
    IN bare \cup {<<"\"">> \o b \o <<"\"">> : b \in bare}

-----------------------------------------------------------------------------
(* SpecDecode: one decode_getchunkdata call on every stream *)

InitDecode ==
    /\ data_str \in Streams
    /\ decoded = NotCalled
    /\ pack_in = <<>>
    /\ blob = NotCalled
    /\ unpacked = NotCalled
    /\ InitStore
    /\ InitIdleProcessor
    /\ InitIdleCache
    /\ InitIdleRenderer

Decode ==
    /\ decoded = NotCalled
    /\ decoded' = decode_getchunkdata(data_str)
    /\ UNCHANGED <<data_str, pack_in, blob, unpacked>>
    /\ UNCHANGED store_vars
    /\ UNCHANGED <<proc_vars, cache_vars, render_vars>>

NextDecode == Decode

SpecDecode == InitDecode /\ [][NextDecode]_vars

-----------------------------------------------------------------------------
(* SpecPack: pack_chunk_binary on a pair of lists, then unpack_chunk_binary *)
(* on the blob it returned                                                 *)

TwoBlock(n, k, a, b) == [i \in 1..n |-> IF i <= k THEN a ELSE b]

SampleU32 ==
    { [hi |-> 0, lo |-> 0], [hi |-> 65535, lo |-> 65535],
      [hi |-> 4660, lo |-> 22136], [hi |-> 65283, lo |-> 513] }

SampleHeights == {0, 7, 128, 255}

Cuts == {1, 100}

\* lists of the right length with values in range, as the decoder produces
\* them, and a few arguments the length check or the masks act on
PackInputs ==
    {<<TwoBlock(ChunkLen, k, a, b), TwoBlock(ChunkLen, k, g, h)>> :
        k \in Cuts, a \in SampleU32, b \in SampleU32,
        g \in SampleHeights, h \in SampleHeights}
    \cup {<<TwoBlock(n, 1, [hi |-> 1, lo |-> 2], [hi |-> 3, lo |-> 4]), TwoBlock(m, 1, 5, 6)>> :
            n \in {ChunkLen - 1, ChunkLen, ChunkLen + 1}, m \in {ChunkLen - 1, ChunkLen}}
    \cup {<<TwoBlock(ChunkLen, 1, [hi |-> 65536 + 1, lo |-> 2], [hi |-> 3, lo |-> 4]),
            TwoBlock(ChunkLen, 1, 256 + 5, 0 - 1)>>}

InitPack ==
    /\ data_str = <<>>
    /\ decoded = NotCalled
    /\ pack_in \in PackInputs
    /\ blob = NotCalled
    /\ unpacked = NotCalled
    /\ InitStore
    /\ InitIdleProcessor
    /\ InitIdleCache
    /\ InitIdleRenderer

Pack ==
    /\ blob = NotCalled
    /\ blob' = pack_chunk_binary(pack_in[1], pack_in[2])
    /\ UNCHANGED <<data_str, decoded, pack_in, unpacked>>
    /\ UNCHANGED store_vars
    /\ UNCHANGED <<proc_vars, cache_vars, render_vars>>

Unpack ==
    /\ blob.st = "returned"
    /\ unpacked = NotCalled
    /\ unpacked' = unpack_chunk_binary(blob.bytes)
    /\ UNCHANGED <<data_str, decoded, pack_in, blob>>
    /\ UNCHANGED store_vars
    /\ UNCHANGED <<proc_vars, cache_vars, render_vars>>

NextPack == Pack \/ Unpack

SpecPack == InitPack /\ [][NextPack]_vars

-----------------------------------------------------------------------------
(* Claims about decode_getchunkdata, checked under SpecDecode *)

\* the elements of the stream under study, and the token and suffix of each
StreamElems == NonEmpty(SplitOn(StripChar(StripWs(data_str), "\""), ","))
PartsAt(i) == SplitOn(StreamElems[i], "*")
TokenAt(i) == PartsAt(i)[1]

\* the number of output elements the elements before the i-th produce
RECURSIVE ProducedBefore(_)
ProducedBefore(i) ==
    IF i <= 1 THEN 0 ELSE ProducedBefore(i - 1) + DupCount(PartsAt(i - 1)) + 1

\* a 6-character token that is not base64 of exactly 4 bytes
BadBase64Token(tok) ==
    /\ Len(tok) = 6
    /\ LET d == b64decode(tok \o <<"=", "=">>) IN ~d.ok \/ Len(d.bytes) # 4

\* a bare integer that names an index not produced before the i-th element
UnproducedRef(i) ==
    /\ Len(TokenAt(i)) # 6
    /\ PyInt(TokenAt(i)).ok
    /\ (PyInt(TokenAt(i)).val < 0 \/ PyInt(TokenAt(i)).val >= ProducedBefore(i))

\* a bare integer that names an index produced before the i-th element
ProducedRef(i) ==
    /\ Len(TokenAt(i)) # 6
    /\ PyInt(TokenAt(i)).ok
    /\ PyInt(TokenAt(i)).val >= 0
    /\ PyInt(TokenAt(i)).val < ProducedBefore(i)

\* a repeat suffix that is not one non-negative integer
BadRepeat(parts) ==
    \/ Len(parts) > 2
    \/ Len(parts) = 2 /\ ~(PyInt(parts[2]).ok /\ PyInt(parts[2]).val >= 0)

\* C1: a decode_getchunkdata call raises, or returns pixels and heights of
\* exactly 256 elements each, every pixel with top byte 0xFF and every
\* height in 0..255
C1_DecodeShape ==
    /\ decoded.st \in {"not_called", "raised", "returned"}
    /\ decoded.st = "returned" =>
        /\ Len(decoded.pixels) = ChunkLen
        /\ Len(decoded.heights) = ChunkLen
        /\ \A i \in 1..Len(decoded.pixels) :
            /\ decoded.pixels[i].hi \div 256 = 255
            /\ decoded.pixels[i].lo \in 0..65535
        /\ \A i \in 1..Len(decoded.heights) : decoded.heights[i] \in 0..255

\* a stream of several elements, one of them a back-reference, was decoded
C1_Witness ==
    /\ decoded.st = "returned"
    /\ Len(StreamElems) >= 2
    /\ \E i \in 1..Len(StreamElems) : ProducedRef(i)

\* C2: the decode raises for every stream that holds a 6-character token
\* which is not base64 of 4 bytes, and for every stream in which a bare
\* integer names an index that has not been produced yet
C2_BadTokenRaises ==
    (/\ decoded # NotCalled
     /\ \E i \in 1..Len(StreamElems) : BadBase64Token(TokenAt(i)) \/ UnproducedRef(i))
    => decoded.st = "raised"

\* a decode that raised on a stream holding both kinds of bad token
C2_Witness ==
    /\ decoded.st = "raised"
    /\ \E i \in 1..Len(StreamElems) : BadBase64Token(TokenAt(i))
    /\ \E i \in 1..Len(StreamElems) : UnproducedRef(i)

\* the decoder's state before the i-th element, and after it
StateBefore(i) ==
    DecodeLoop(SubSeq(StreamElems, 1, i - 1), 1,
        [index_to_data |-> <<>>, pixels |-> <<>>, heights |-> <<>>,
         cur_idx |-> 0, err |-> ""])
StateAfter(i) == DecodeElem(StreamElems[i], StateBefore(i))

\* C3 as claimed: a back-reference p to any position produced so far, reached
\* without an error, resolves to the element at position p
C3_BackRefAnyProducedPosition ==
    decoded # NotCalled =>
        \A i \in 1..Len(StreamElems) :
            (StateBefore(i).err = "" /\ ProducedRef(i)) =>
                /\ StateAfter(i).err = ""
                /\ StateAfter(i).pixels[StateBefore(i).cur_idx + 1]
                      = StateBefore(i).pixels[PyInt(TokenAt(i)).val + 1]
                /\ StateAfter(i).heights[StateBefore(i).cur_idx + 1]
                      = StateBefore(i).heights[PyInt(TokenAt(i)).val + 1]

\* C4 as claimed: a stream with a malformed element is never decoded
C4_MalformedNeverDecoded ==
    (/\ decoded # NotCalled
     /\ \E i \in 1..Len(StreamElems) :
            \/ BadRepeat(PartsAt(i))
            \/ BadBase64Token(TokenAt(i))
            \/ Len(TokenAt(i)) # 6 /\ ~PyInt(TokenAt(i)).ok)
    => decoded.st # "returned"

\* the reference expansion: each token's 32-bit value, N + 1 times for "*N",
\* a bare integer p standing for the expanded element at position p
RECURSIVE RefExpand(_, _)
RefExpand(i, out) ==
    IF i > Len(StreamElems) THEN out
    ELSE LET parts == PartsAt(i)
             n == IF Len(parts) = 2 THEN PyInt(parts[2]).val ELSE 0
             v == IF Len(parts[1]) = 6
                  THEN unpack_u32_le(b64decode(parts[1] \o <<"=", "=">>).bytes)
                  ELSE out[PyInt(parts[1]).val + 1]
         IN RefExpand(i + 1, out \o [k \in 1..(n + 1) |-> v])

\* C5: the arrays returned for a well-formed stream are the reference
\* expansion of its tokens, with height = (v >> 24) & 0xFF and
\* pixel = (v & 0x00FFFFFF) | 0xFF000000
C5_DecodeIsReferenceExpansion ==
    (/\ decoded.st = "returned"
     /\ \A i \in 1..Len(StreamElems) : ~BadRepeat(PartsAt(i)))
    => LET ref == RefExpand(1, <<>>)
       IN /\ Len(decoded.pixels) = Len(ref)
          /\ Len(decoded.heights) = Len(ref)
          /\ \A k \in 1..Len(ref) :
                /\ decoded.heights[k] = (ref[k].hi \div 256) % 256
                /\ decoded.pixels[k] = [hi |-> 255 * 256 + (ref[k].hi % 256), lo |-> ref[k].lo]

\* a well-formed stream with a repeat suffix, a back-reference and two
\* different values was decoded
C5_Witness ==
    /\ decoded.st = "returned"
    /\ \A i \in 1..Len(StreamElems) : ~BadRepeat(PartsAt(i))
    /\ \E i \in 1..Len(StreamElems) : Len(PartsAt(i)) = 2 /\ PyInt(PartsAt(i)[2]).val >= 1
    /\ \E i \in 1..Len(StreamElems) : ProducedRef(i)
    /\ \E k \in 1..Len(decoded.heights) : decoded.heights[k] # decoded.heights[1]

-----------------------------------------------------------------------------
(* Claim about pack_chunk_binary / unpack_chunk_binary, under SpecPack *)

\* 256 pixels in 0..2^32-1 and 256 heights in 0..255
ValidPair(pair) ==
    /\ Len(pair[1]) = ChunkLen
    /\ Len(pair[2]) = ChunkLen
    /\ \A i \in 1..Len(pair[1]) : pair[1][i].hi \in 0..65535 /\ pair[1][i].lo \in 0..65535
    /\ \A i \in 1..Len(pair[2]) : pair[2][i] \in 0..255

\* C6: unpack_chunk_binary(pack_chunk_binary(pixels, heights)) returns the
\* same pixels and heights for every valid pair of 256-element lists
C6_PackUnpackRoundTrip ==
    ValidPair(pack_in) =>
        /\ blob # NotCalled => blob.st = "returned"
        /\ unpacked # NotCalled =>
            /\ unpacked.st = "returned"
            /\ unpacked.pixels = pack_in[1]
            /\ unpacked.heights = pack_in[2]

\* a valid pair with two different pixels, whose four bytes differ, came back
C6_Witness ==
    /\ ValidPair(pack_in)
    /\ unpacked.st = "returned"
    /\ pack_in[1][1] = [hi |-> 4660, lo |-> 22136]
    /\ pack_in[1][2] = [hi |-> 65283, lo |-> 513]
    /\ pack_in[2][1] # pack_in[2][2]

-----------------------------------------------------------------------------
(* The in-memory chunk store and the request bookkeeping of chunk_store.py. *)
(* A dict is the sequence of its entries [key, rec] in insertion order.    *)
(* The timestamp of a record is left out: nothing reads it.                *)

\* a dimension argument: a name or an integer id
DimName(s) == [int |-> FALSE, i |-> 0, s |-> s]
DimId(i) == [int |-> TRUE, i |-> i, s |-> ""]

DIMENSION_MAP == (0 :> "overworld") @@ (1 :> "nether") @@ (2 :> "end")

\* str(i) of a one-digit integer
PyStr(i) == Digits[i + 1]

normalize_dimension(dimension) ==
    IF dimension.int
    THEN IF dimension.i \in DOMAIN DIMENSION_MAP THEN DIMENSION_MAP[dimension.i]
         ELSE PyStr(dimension.i)
    ELSE dimension.s

\* chunk_key without the y part
chunk_key_NoY(dimension, x, z, y) == <<normalize_dimension(dimension), x, z, None>>

\* the key "dim:x:z:y_part" as the tuple of its colon-separated parts; the
\* y_part None is the literal 'all'
chunk_key(dimension, x, z, y) == <<normalize_dimension(dimension), x, z, y>>

DictHas(d, k) == \E i \in 1..Len(d) : d[i].key = k
DictGet(d, k) == IF DictHas(d, k) THEN Some(d[CHOOSE i \in 1..Len(d) : d[i].key = k].rec)
                 ELSE None
DictSet(d, k, v) ==
    IF DictHas(d, k)
    THEN [i \in 1..Len(d) |-> IF d[i].key = k THEN [key |-> k, rec |-> v] ELSE d[i]]
    ELSE Append(d, [key |-> k, rec |-> v])

\* the record store_chunk builds and returns
StoreRecord(dimension, x, z, pixels, heights, y, request_id) ==
    [dimension |-> normalize_dimension(dimension), x |-> x, z |-> z, y |-> y,
     pixels |-> pixels, heights |-> heights, request_id |-> request_id]

\* CHUNK_STORE after store_chunk
store_chunk(dimension, x, z, pixels, heights, y, request_id) ==
    DictSet(CHUNK_STORE, chunk_key(dimension, x, z, y),
            StoreRecord(dimension, x, z, pixels, heights, y, request_id))

get_chunk(dimension, x, z, y) == DictGet(CHUNK_STORE, chunk_key(dimension, x, z, y))

\* get_pending_request_ids_for_chunk comparing the dimension as passed
get_pending_NotNormalized(dimension, x, z, y) ==
    {req_id \in DOMAIN REQUEST_TO_COORDS :
        REQUEST_TO_COORDS[req_id] = <<dimension.s, x, z, y>>}

\* the request ids outstanding for the exact chunk and y
get_pending_request_ids_for_chunk(dimension, x, z, y) ==
    {req_id \in DOMAIN REQUEST_TO_COORDS :
        REQUEST_TO_COORDS[req_id] = <<normalize_dimension(dimension), x, z, y>>}

\* list.sort(key = e['y']): stable, ascending
SortRank(arr, i) ==
    1 + Cardinality({j \in 1..Len(arr) :
                        arr[j].y < arr[i].y \/ (arr[j].y = arr[i].y /\ j < i)})
SortByY(arr) == [p \in 1..Len(arr) |-> arr[CHOOSE i \in 1..Len(arr) : SortRank(arr, i) = p]]

\* the entries of the records in recs that reach column idx
ColumnOf(recs, idx) ==
    LET reach == SelectSeq(recs, LAMBDA rec :
                    idx < Min({Len(rec.heights), Len(rec.pixels), ChunkLen}))
    IN [k \in 1..Len(reach) |-> [y |-> reach[k].heights[idx + 1],
                                 pixel |-> reach[k].pixels[idx + 1],
                                 slice_y |-> reach[k].y]]

StacksOf(recs) == [idx \in 0..(ChunkLen - 1) |-> SortByY(ColumnOf(recs, idx))]

RecsOf(entries) == [k \in 1..Len(entries) |-> entries[k].rec]

\* key.startswith("dim:x:z:")
StartsWith(key, dim_str, x, z) == key[1] = dim_str /\ key[2] = x /\ key[3] = z

assemble_chunk_column_stacks(dimension, x, z) ==
    StacksOf(RecsOf(SelectSeq(CHUNK_STORE, LAMBDA e :
                StartsWith(e.key, normalize_dimension(dimension), x, z))))

-----------------------------------------------------------------------------
(* ensure_chunk_present and request_chunk.  A call runs without interruption *)
(* from one await to the next; the only await is the websocket send.        *)

Conns == 1..NumConns

\* the frame of an ensure_chunk_present call; the loops over dx and dz are
\* numbered row by row, cell being the one whose request is being sent
NewCall(dimension, x, z, y, radius) ==
    [dimension |-> dimension, x |-> x, z |-> z, y |-> y, radius |-> radius,
     cell |-> 0, rid |-> 0, requested_ids |-> <<>>]

Side(call) == 2 * call.radius + 1
CellX(call, k) == call.x - call.radius + (k \div Side(call))
CellZ(call, k) == call.z - call.radius + (k % Side(call))

\* the two `continue` tests of the loop body
Skipped(call, k) ==
    \/ get_chunk(call.dimension, CellX(call, k), CellZ(call, k), call.y) # None
    \/ get_pending_request_ids_for_chunk(call.dimension, CellX(call, k), CellZ(call, k),
                                         call.y) # {}

\* the cells from k on that the loop will not skip
Todo(call, k) == {j \in k..(Side(call) * Side(call) - 1) : ~Skipped(call, j)}

\* request_chunk up to its await: a fresh id, the map entry, then the send
request_chunk(c, call, k, request_id) ==
    /\ uuids' = request_id
    /\ REQUEST_TO_COORDS' = REQUEST_TO_COORDS @@
          (request_id :> <<normalize_dimension(call.dimension), CellX(call, k),
                           CellZ(call, k), call.y>>)
    /\ tasks' = [tasks EXCEPT ![c] = Some([call EXCEPT !.cell = k, !.rid = request_id])]

\* the loop from its next unskipped cell: request it, or return
RunLoop(c, call, todo) ==
    IF todo = {}
    THEN /\ tasks' = [tasks EXCEPT ![c] = None]
         /\ UNCHANGED <<REQUEST_TO_COORDS, uuids>>
    ELSE /\ uuids < MaxRequests
         /\ request_chunk(c, call, Min(todo), uuids + 1)

StartCall(c, call) == RunLoop(c, call, Todo(call, 0))

\* a PlayerTravelled message on connection c (or any other caller)
ensure_chunk_present(c, dimension, x, z, y, radius) ==
    /\ tasks[c] = None
    /\ StartCall(c, NewCall(dimension, x, z, y, radius))
    /\ UNCHANGED <<codec_vars, CHUNK_STORE, handled, direct, stored, last_response,
                   send_failed>>
    /\ UNCHANGED <<proc_vars, cache_vars, render_vars>>

ResumeCall(c, call, ids) ==
    RunLoop(c, [call EXCEPT !.requested_ids = ids], Todo(call, call.cell + 1))

\* the send returns: the id joins requested_ids and the loop goes on
SendReturns(c) ==
    /\ tasks[c] # None
    /\ ResumeCall(c, The(tasks[c]), Append(The(tasks[c]).requested_ids, The(tasks[c]).rid))
    /\ UNCHANGED <<codec_vars, CHUNK_STORE, handled, direct, stored, last_response,
                   send_failed>>
    /\ UNCHANGED <<proc_vars, cache_vars, render_vars>>

\* the send raises: the exception is logged and the loop goes on
SendRaises(c) ==
    /\ tasks[c] # None
    /\ ResumeCall(c, The(tasks[c]), The(tasks[c]).requested_ids)
    /\ send_failed' = send_failed \cup {The(tasks[c]).rid}
    /\ UNCHANGED <<codec_vars, CHUNK_STORE, handled, direct, stored, last_response>>
    /\ UNCHANGED <<proc_vars, cache_vars, render_vars>>

-----------------------------------------------------------------------------
(* handle_chunk_response.  A header or body is the record of its keys, an  *)
(* absent key (or JSON null) being None.                                   *)

\* truth of a number or of a dimension value as Python's `or` tests it
Truthy(o) == o # None /\ The(o) # 0
TruthyDim(o) == o # None /\ (IF The(o).int THEN The(o).i # 0 ELSE The(o).s # "")
Or(a, b) == IF Truthy(a) THEN a ELSE b
OrDim(a, b) == IF TruthyDim(a) THEN a ELSE b

\* (body.get('position') or {}).get(k)
PositionGet(body, k) == IF body.position = None THEN None ELSE The(body.position)[k]

BodyDim(body) ==
    The(OrDim(OrDim(OrDim(body.dimension, body.world), body.dimensionName),
              Some(DimName("overworld"))))
BodyX(body) == Or(Or(body.x, body.chunkX), PositionGet(body, "x"))
BodyZ(body) == Or(Or(body.z, body.chunkZ), PositionGet(body, "z"))
BodyY(body) == Or(Or(body.y, body.chunkY), PositionGet(body, "y"))

\* header.get('requestId') or header.get('requestID'); an id is a non-empty string
HeaderRequestId(header) == IF header.requestId # None THEN header.requestId
                           ELSE header.requestID

\* REQUEST_TO_COORDS.get(request_id) for an optional request id
Pending(request_id) ==
    IF request_id # None /\ The(request_id) \in DOMAIN REQUEST_TO_COORDS
    THEN Some(REQUEST_TO_COORDS[The(request_id)]) ELSE None

\* REQUEST_TO_COORDS after pop(request_id, None)
Pop(request_id) ==
    [r \in DOMAIN REQUEST_TO_COORDS \ {request_id} |-> REQUEST_TO_COORDS[r]]

\* return None: nothing is stored
ReturnNone(call) ==
    /\ last_response' = Some([call EXCEPT !.ret = None])
    /\ UNCHANGED <<CHUNK_STORE, stored>>

\* store_chunk(dim, int(x), int(z), pixels, heights, y=y, request_id=request_id)
StoreDecoded(call, request_id, dim, x, z, y, d) ==
    IF d.st # "returned" THEN ReturnNone(call)
    ELSE /\ CHUNK_STORE' = store_chunk(dim, x, z, d.pixels, d.heights, y, request_id)
         /\ stored' = stored \cup {<<normalize_dimension(dim), x, z, y>>}
         /\ last_response' = Some([call EXCEPT !.ret =
                Some(StoreRecord(dim, x, z, d.pixels, d.heights, y, request_id))])

\* from the test for missing coordinates on
DecodeAndStore(call, request_id, dim, x, z, y) ==
    IF x = None \/ z = None THEN ReturnNone(call)
    ELSE IF call.body.data = None THEN ReturnNone(call)
    ELSE StoreDecoded(call, request_id, dim, The(x), The(z), y,
                      decode_getchunkdata(The(call.body.data)))

\* the coordinates of the map entry, when the lookup found one
FromCoords(call, request_id, coords) ==
    DecodeAndStore(call, request_id, DimName(coords[1]), Some(coords[2]), Some(coords[3]),
                   coords[4])

\* the lookup of the request id when the body lacks a coordinate
LookUp(call, request_id, dim, x, z, y) ==
    IF (x = None \/ z = None \/ y = None) /\ request_id # None
    THEN /\ REQUEST_TO_COORDS' = Pop(The(request_id))
         /\ IF call.pending # None
            THEN FromCoords(call, request_id, The(call.pending))
            ELSE DecodeAndStore(call, request_id, dim, x, z, y)
    ELSE /\ UNCHANGED REQUEST_TO_COORDS
         /\ DecodeAndStore(call, request_id, dim, x, z, y)

\* a chunk response arrives on connection c, whose handler is between messages
handle_chunk_response(c, header, body) ==
    /\ tasks[c] = None
    /\ handled < MaxResponses
    /\ handled' = handled + 1
    /\ LookUp([header |-> header, body |-> body,
               pending |-> Pending(HeaderRequestId(header)), ret |-> None],
              HeaderRequestId(header), BodyDim(body), BodyX(body), BodyZ(body), BodyY(body))
    /\ UNCHANGED <<codec_vars, uuids, tasks, direct, send_failed>>
    /\ UNCHANGED <<proc_vars, cache_vars, render_vars>>

-----------------------------------------------------------------------------
(* A direct store_chunk call with a decoded slice, as the tests make it *)

StoreSliceDecoded(dimension, x, z, y, request_id, d) ==
    /\ d.st = "returned"
    /\ CHUNK_STORE' = store_chunk(dimension, x, z, d.pixels, d.heights, y, request_id)
    /\ stored' = stored \cup {<<normalize_dimension(dimension), x, z, y>>}

StoreSlice(dimension, x, z, y, request_id, stream) ==
    /\ direct < MaxStoreCalls
    /\ direct' = direct + 1
    /\ StoreSliceDecoded(dimension, x, z, y, request_id, decode_getchunkdata(stream))
    /\ UNCHANGED <<codec_vars, REQUEST_TO_COORDS, uuids, tasks, handled, last_response,
                   send_failed>>
    /\ UNCHANGED <<proc_vars, cache_vars, render_vars>>

-----------------------------------------------------------------------------
(* Inputs of the store: the calls and messages of one run *)

\* data fields: two streams that decode (one quoted, one with a back
\* reference) and one that is too short
StreamA == <<"\"", "A", "A", "A", "A", "A", "A", "*", "2", "5", "5", "\"">>
StreamB == <<"A", "Q", "I", "D", "g", "A", "*", "2", "5", "4", ",", "0">>
StreamShort == <<"A", "A", "A", "A", "A", "A">>

EnsureArgs ==
    {NewCall(d, 1, 1, Some(64), r) : d \in {DimName("overworld"), DimId(0)}, r \in {0, 1}}

EmptyBody ==
    [dimension |-> None, world |-> None, dimensionName |-> None,
     x |-> None, chunkX |-> None, z |-> None, chunkZ |-> None, y |-> None, chunkY |-> None,
     position |-> None, data |-> None]

\* the places a body can carry the coordinates x, z, y in
WithXYZ(b, x, z, y) == [b EXCEPT !.x = Some(x), !.z = Some(z), !.y = Some(y)]
WithXZ(b, x, z) == [b EXCEPT !.x = Some(x), !.z = Some(z)]
WithChunkXYZ(b, x, z, y) == [b EXCEPT !.chunkX = Some(x), !.chunkZ = Some(z), !.chunkY = Some(y)]
WithPosition(b, x, z, y) ==
    [b EXCEPT !.position = Some([x |-> Some(x), y |-> Some(y), z |-> Some(z)])]
WithData(b, stream) == [b EXCEPT !.data = Some(stream)]

BodyCoords == {<<1, 1, 64>>, <<0, 1, 64>>, <<1, 1, 0>>}

Bodies ==
    LET good == WithData(EmptyBody, StreamA)
        here == WithXYZ(EmptyBody, 1, 1, 64)
    IN  {good, WithXZ(good, 1, 1)}
        \cup {WithXYZ(good, p[1], p[2], p[3]) : p \in BodyCoords}
        \cup {WithChunkXYZ(good, p[1], p[2], p[3]) : p \in BodyCoords}
        \cup {WithPosition(good, p[1], p[2], p[3]) : p \in BodyCoords}
        \cup {[b EXCEPT !.dimension = Some(DimName("nether"))] :
                b \in {good, WithXYZ(good, 1, 1, 64)}}
        \cup {[b EXCEPT !.dimension = Some(DimId(0)), !.world = Some(DimId(2))] :
                b \in {WithXYZ(good, 1, 1, 64)}}
        \cup {EmptyBody, here, WithData(EmptyBody, StreamB), WithData(here, StreamB),
              WithData(EmptyBody, StreamShort), WithData(here, StreamShort)}

\* a response names no request, a request id the server generated, or one it
\* never generated (0)
Headers ==
    {[requestId |-> None, requestID |-> None]}
    \cup {[requestId |-> Some(r), requestID |-> None] : r \in 0..uuids}
    \cup {[requestId |-> None, requestID |-> Some(r)] : r \in 1..uuids}

\* the test's two slices of one chunk, by name and by id, and a slice without y
StoreArgs ==
    { <<DimName("overworld"), 1, 1, Some(10), Some(0), StreamB>>,
      <<DimId(0), 1, 1, Some(64), Some(0), StreamA>>,
      <<DimId(3), 1, 1, None, None, StreamA>> }

-----------------------------------------------------------------------------
(* Spec: the chunk store under ensure_chunk_present calls on every         *)
(* connection, send completions, chunk responses and direct stores         *)

Init ==
    /\ data_str = <<>>
    /\ decoded = NotCalled
    /\ pack_in = <<>>
    /\ blob = NotCalled
    /\ unpacked = NotCalled
    /\ InitStore
    /\ InitIdleProcessor
    /\ InitIdleCache
    /\ InitIdleRenderer

Next ==
    \/ \E c \in Conns, a \in EnsureArgs :
            ensure_chunk_present(c, a.dimension, a.x, a.z, a.y, a.radius)
    \/ \E c \in Conns : SendReturns(c)
    \/ \E c \in Conns : SendRaises(c)
    \/ \E c \in Conns, header \in Headers, body \in Bodies :
            handle_chunk_response(c, header, body)
    \/ \E a \in StoreArgs : StoreSlice(a[1], a[2], a[3], a[4], a[5], a[6])

Spec == Init /\ [][Next]_vars

-----------------------------------------------------------------------------
(* Claims about the chunk store, checked under Spec *)

StoredYs(dim_str, x, z) == {s[4] : s \in {t \in stored : <<t[1], t[2], t[3]>> = <<dim_str, x, z>>}}

\* C8: for every (dimension, x, z) under which slices were stored with k
\* distinct y values, assemble_chunk_column_stacks returns a list for each of
\* the 256 columns and each list has at least k entries.
C8_StacksCoverStoredSlices ==
    \A s \in stored :
        LET stacks == assemble_chunk_column_stacks(DimName(s[1]), s[2], s[3])
            k == Cardinality(StoredYs(s[1], s[2], s[3]))
        IN /\ DOMAIN stacks = 0..(ChunkLen - 1)
           /\ \A idx \in DOMAIN stacks : Len(stacks[idx]) >= k

\* two slices with different y are stored under one (dimension, x, z)
C8_Witness ==
    \E s \in stored :
        /\ Cardinality(StoredYs(s[1], s[2], s[3])) >= 2
        /\ Len(assemble_chunk_column_stacks(DimName(s[1]), s[2], s[3])[0]) >= 2

\* the value a body carries for a coordinate: the first key that is present
Carried(a, b, c) == IF a # None THEN a ELSE IF b # None THEN b ELSE c
CarriedX(body) == Carried(body.x, body.chunkX, PositionGet(body, "x"))
CarriedZ(body) == Carried(body.z, body.chunkZ, PositionGet(body, "z"))
CarriedY(body) == Carried(body.y, body.chunkY, PositionGet(body, "y"))

Decodable(body) ==
    body.data # None /\ decode_getchunkdata(The(body.data)).st = "returned"

\* C9: a response with decodable data is stored under the coordinates its
\* body carries (whatever their values, 0 included) and, when the body
\* carries none, under the coordinates recorded for its request id.
C9_StoredUnderRequestedCoords ==
    \A r \in last_response :
        Decodable(r.body) =>
            IF CarriedX(r.body) # None /\ CarriedZ(r.body) # None /\ CarriedY(r.body) # None
            THEN /\ r.ret # None
                 /\ <<The(r.ret).dimension, The(r.ret).x, The(r.ret).z, The(r.ret).y>>
                        = <<normalize_dimension(BodyDim(r.body)), The(CarriedX(r.body)),
                            The(CarriedZ(r.body)), CarriedY(r.body)>>
            ELSE (CarriedX(r.body) = None /\ CarriedZ(r.body) = None
                    /\ CarriedY(r.body) = None /\ r.pending # None) =>
                 /\ r.ret # None
                 /\ <<The(r.ret).dimension, The(r.ret).x, The(r.ret).z, The(r.ret).y>>
                        = The(r.pending)

\* C10: no two outstanding requests are for the same exact coordinate, and
\* a step that records a new request records it for a coordinate that is
\* neither in the chunk store nor outstanding.
C10_NoDuplicateRequest ==
    /\ [](\A r1, r2 \in DOMAIN REQUEST_TO_COORDS :
            REQUEST_TO_COORDS[r1] = REQUEST_TO_COORDS[r2] => r1 = r2)
    /\ [][\A r \in DOMAIN REQUEST_TO_COORDS' \ DOMAIN REQUEST_TO_COORDS :
            /\ ~DictHas(CHUNK_STORE, REQUEST_TO_COORDS'[r])
            /\ \A q \in DOMAIN REQUEST_TO_COORDS :
                    REQUEST_TO_COORDS[q] # REQUEST_TO_COORDS'[r]]_vars

\* two connections run the same radius-1 call at once: the second skipped
\* the cell the first is requesting and requests the next one; and a stored
\* chunk is skipped as well
C10_Witness ==
    /\ \E c1, c2 \in Conns :
        /\ c1 # c2
        /\ tasks[c1] # None /\ tasks[c2] # None
        /\ The(tasks[c1]).radius = 1 /\ The(tasks[c2]).radius = 1
        /\ The(tasks[c1]).cell = 0 /\ The(tasks[c2]).cell = 1
    /\ Cardinality(DOMAIN REQUEST_TO_COORDS) = 2

-----------------------------------------------------------------------------
(* ChunkProcessor: the in-process cache with its disk spill                *)

ChunkSize == 16
SaveEvery == 50      \* _cache_chunk saves the chunk it stored at every 50th resident chunk

\* stone_mask.any() of a generation: some cell has 1 <= world_y < height_map - 5.  Over
\* the chunks with x and z in 0..2 the height map lies between 153 and 282, so the
\* chunks at y = 0 of these columns are stone from world_y = 1 upwards.
HasStone(key) == key[2] = 0 /\ key[1] \in 0..2 /\ key[3] \in 0..2

\* self.chunk_access_time[key] = time.time()
Touch(order, key) == Append(SelectSeq(order, LAMBDA k : k # key), key)

\* chunks_to_swap, restricted to the keys the loop acts on
ToSwap(order) == {order[i] : i \in 1..(Len(order) \div 4)} \cap DOMAIN chunk_cache

\* the tail of _cache_chunk: store the chunk, save it at every SaveEvery-th resident chunk
StoreInMemory(key, chunk, resident, on_disk, files, index) ==
    /\ chunk_cache' = (key :> chunk) @@ resident
    /\ IF Cardinality(DOMAIN resident \cup {key}) % SaveEvery = 0
       THEN /\ chunk_files' = (key :> chunk) @@ files
            /\ chunks_on_disk' = on_disk \cup {key}
            /\ index_file' = on_disk \cup {key}
       ELSE /\ chunk_files' = files
            /\ chunks_on_disk' = on_disk
            /\ index_file' = index

\* faulty variant: the keys of S leave the memory without being saved
SwapThenStore_NoSave(key, chunk, S) ==
    /\ chunk_access_time' = SelectSeq(chunk_access_time, LAMBDA k : k \notin S)
    /\ StoreInMemory(key, chunk,
                     [k \in DOMAIN chunk_cache \ S |-> chunk_cache[k]],
                     chunks_on_disk, chunk_files, chunks_on_disk)

\* the head of _cache_chunk when the budget is reached: swap the keys of S to disk
SwapThenStore(key, chunk, S) ==
    /\ chunk_access_time' = SelectSeq(chunk_access_time, LAMBDA k : k \notin S)
    /\ StoreInMemory(key, chunk,
                     [k \in DOMAIN chunk_cache \ S |-> chunk_cache[k]],
                     chunks_on_disk \cup S,
                     [k \in S |-> chunk_cache[k]] @@ chunk_files,
                     chunks_on_disk \cup S)

_cache_chunk(key, chunk) ==
    IF Cardinality(DOMAIN chunk_cache) >= max_memory_chunks
    THEN SwapThenStore(key, chunk, ToSwap(chunk_access_time))
    ELSE /\ UNCHANGED chunk_access_time
         /\ StoreInMemory(key, chunk, chunk_cache, chunks_on_disk, chunk_files, index_file)

cache_state == <<chunk_cache, chunk_access_time, chunks_on_disk, chunk_files, index_file>>

-----------------------------------------------------------------------------
(* ChunkProcessor: admission of a request and batch formation              *)

Range(q) == {q[i] : i \in 1..Len(q)}

\* faulty variant: every request opens an entry of its own
AppendFuture_NewEntry(pending, key, c) == Append(pending, [key |-> key, futures |-> <<c>>])

\* self.pending_requests[key].append(future); the future is named by its call
AppendFuture(pending, key, c) ==
    IF \E i \in 1..Len(pending) : pending[i].key = key
    THEN [i \in 1..Len(pending) |->
            IF pending[i].key = key
            THEN [key |-> key, futures |-> Append(pending[i].futures, c)]
            ELSE pending[i]]
    ELSE Append(pending, [key |-> key, futures |-> <<c>>])

RECURSIVE TotalFrom(_, _)
TotalFrom(pending, i) ==
    IF i > Len(pending) THEN 0 ELSE Len(pending[i].futures) + TotalFrom(pending, i + 1)

\* total_pending = sum(len(futures) for futures in self.pending_requests.values())
TotalPending(pending) == TotalFrom(pending, 1)

\* _create_batch: the entries taken, in dict order, until the batch holds batch_size of them
BatchLen(pending) == Min({Max({batch_size, 1}), Len(pending)})
Batched(pending) == SubSeq(pending, 1, BatchLen(pending))
Unbatched(pending) == SubSeq(pending, BatchLen(pending) + 1, Len(pending))

_create_batch(pending) ==
    /\ pending_requests' = Unbatched(pending)
    /\ batch_queue' = IF Batched(pending) = <<>> THEN batch_queue
                      ELSE Append(batch_queue, Batched(pending))

\* faulty variant: the batch is formed one request late
Admit_Late(pending) ==
    IF TotalPending(pending) > batch_size
    THEN _create_batch(pending)
    ELSE /\ pending_requests' = pending
         /\ UNCHANGED batch_queue

\* the locked section of process_chunk, after the append
Admit(pending) ==
    IF TotalPending(pending) >= batch_size
    THEN _create_batch(pending)
    ELSE /\ pending_requests' = pending
         /\ UNCHANGED batch_queue

-----------------------------------------------------------------------------
(* ChunkProcessor.process_chunk                                            *)

Call(key, pc, future, ret, err) ==
    [key |-> key, pc |-> pc, future |-> future, ret |-> ret, err |-> err]

\* process_chunk up to its first suspension, as call number Len(calls) + 1
process_chunk(key) ==
    /\ chunk_access_time' = Touch(chunk_access_time, key)
    /\ IF key \in DOMAIN chunk_cache
       THEN /\ calls' = Append(calls, Call(key, "returned", NoFuture,
                                           Some(chunk_cache[key]), ""))
            /\ UNCHANGED <<pending_requests, batch_queue>>
       ELSE IF key \in chunks_on_disk
       THEN /\ calls' = Append(calls,
                               IF executor = "shutdown"
                               THEN Call(key, "raised", NoFuture, None, "RuntimeError")
                               ELSE Call(key, "load", NoFuture, None, ""))
            /\ UNCHANGED <<pending_requests, batch_queue>>
       ELSE /\ calls' = Append(calls, Call(key, "wait", NewFuture, None, ""))
            /\ Admit(AppendFuture(pending_requests, key, Len(calls) + 1))
    /\ UNCHANGED <<batch_size, gpu_available, max_memory_chunks, processing_task, consumer,
                   executor, stop_call, chunk_cache, chunks_on_disk, chunk_files,
                   index_file, generated, last_generation>>
    /\ UNCHANGED <<codec_vars, store_vars, cache_vars, render_vars>>

\* the run_in_executor(_load_chunk_from_disk) of call c completes and the call goes on
LoadReturns(c) ==
    /\ c \in 1..Len(calls)
    /\ calls[c].pc = "load"
    /\ IF calls[c].key \in DOMAIN chunk_files
       THEN /\ _cache_chunk(calls[c].key, chunk_files[calls[c].key])
            /\ calls' = [calls EXCEPT ![c].pc = "returned",
                                      ![c].ret = Some(chunk_files[calls[c].key])]
            /\ UNCHANGED <<pending_requests, batch_queue>>
       ELSE /\ calls' = [calls EXCEPT ![c].pc = "wait", ![c].future = NewFuture]
            /\ Admit(AppendFuture(pending_requests, calls[c].key, c))
            /\ UNCHANGED cache_state
    /\ UNCHANGED <<batch_size, gpu_available, max_memory_chunks, processing_task, consumer,
                   executor, stop_call, generated, last_generation>>
    /\ UNCHANGED <<codec_vars, store_vars, cache_vars, render_vars>>

\* `result = await future` of call c returns or raises, and the call goes on to its end
FutureReturns(c) ==
    /\ c \in 1..Len(calls)
    /\ calls[c].pc = "wait"
    /\ calls[c].future.st \in {"result", "exception"}
    /\ IF calls[c].future.st = "result"
       THEN /\ _cache_chunk(calls[c].key, The(calls[c].future.value))
            /\ calls' = [calls EXCEPT ![c].pc = "returned", ![c].ret = calls[c].future.value]
       ELSE /\ calls' = [calls EXCEPT ![c].pc = "raised", ![c].err = calls[c].future.err]
            /\ UNCHANGED cache_state
    /\ UNCHANGED <<batch_size, gpu_available, max_memory_chunks, pending_requests,
                   batch_queue, processing_task, consumer, executor, stop_call, generated,
                   last_generation>>
    /\ UNCHANGED <<codec_vars, store_vars, cache_vars, render_vars>>

Cancelled == {c \in 1..Len(calls) : calls[c].pc = "cancelled"}

\* the task awaiting call c is cancelled: a pending future is cancelled with it
CancelCall(c) ==
    /\ c \in 1..Len(calls)
    /\ calls[c].pc \in {"load", "wait"}
    /\ Cardinality(Cancelled) < MaxCancels
    /\ calls' = [calls EXCEPT ![c].pc = "cancelled",
                              ![c].future = IF @.st = "pending"
                                            THEN [@ EXCEPT !.st = "cancelled"] ELSE @]
    /\ UNCHANGED <<batch_size, gpu_available, max_memory_chunks, pending_requests,
                   batch_queue, processing_task, consumer, executor, stop_call, generated,
                   last_generation>>
    /\ UNCHANGED cache_state
    /\ UNCHANGED <<codec_vars, store_vars, cache_vars, render_vars>>

-----------------------------------------------------------------------------
(* ChunkProcessor._process_batches, start and stop                         *)

\* faulty variant: set_result without the done() test
SetResult_Unguarded(fut, chunk) == [st |-> "result", value |-> Some(chunk), err |-> ""]

\* future.set_result(result) and future.set_exception(e) behind `if not future.done()`
SetResult(fut, chunk) ==
    IF Done(fut) THEN fut ELSE [st |-> "result", value |-> Some(chunk), err |-> ""]

SetException(fut, e) ==
    IF Done(fut) THEN fut ELSE [st |-> "exception", value |-> None, err |-> e]

FuturesOf(batch) == UNION {Range(batch[i].futures) : i \in 1..Len(batch)}
EntryOf(batch, c) == CHOOSE i \in 1..Len(batch) : c \in Range(batch[i].futures)

\* the "Deliver results" loop
Deliver(cs, batch, results) ==
    [c \in 1..Len(cs) |->
        IF c \in FuturesOf(batch)
        THEN [cs[c] EXCEPT !.future = SetResult(@, results[EntryOf(batch, c)])]
        ELSE cs[c]]

\* faulty variant: only the futures of the first coordinate take the error
Fail_FirstCoord(cs, batch, e) ==
    [c \in 1..Len(cs) |->
        IF c \in Range(batch[1].futures)
        THEN [cs[c] EXCEPT !.future = SetException(@, e)]
        ELSE cs[c]]

\* the `except Exception` handler
Fail(cs, batch, e) ==
    [c \in 1..Len(cs) |->
        IF c \in FuturesOf(batch)
        THEN [cs[c] EXCEPT !.future = SetException(@, e)]
        ELSE cs[c]]

\* the chunks one path can produce for coords: one ore scatter per stone-bearing chunk
Results(coords, path) ==
    {[i \in 1..Len(coords) |-> Chunk(coords[i], path, IF HasStone(coords[i]) THEN n[i] ELSE 0)] :
        n \in [1..Len(coords) -> Noise]}

_process_chunk_batch_cpu(coords) ==
    {[gpu |-> "none", cpu |-> "ok", results |-> r] : r \in Results(coords, "cpu")}
    \cup {[gpu |-> "none", cpu |-> "raised", results |-> <<>>]}

_process_chunk_batch_gpu(coords) ==
    {[gpu |-> "ok", cpu |-> "none", results |-> r] : r \in Results(coords, "gpu")}
    \cup {[gpu |-> "failed", cpu |-> "none", results |-> <<>>]}

\* faulty variant: a failure of the accelerator path is the outcome of the call
_process_chunk_batch_NoFallback(coords) ==
    IF gpu_available
    THEN _process_chunk_batch_gpu(coords)
    ELSE _process_chunk_batch_cpu(coords)

\* the outcomes of _process_chunk_batch in the worker thread
_process_chunk_batch(coords) ==
    IF gpu_available
    THEN {o \in _process_chunk_batch_gpu(coords) : o.gpu = "ok"}
         \cup {[o EXCEPT !.gpu = "failed"] : o \in _process_chunk_batch_cpu(coords)}
    ELSE _process_chunk_batch_cpu(coords)

CoordsOf(batch) == [i \in 1..Len(batch) |-> batch[i].key]

\* the top of the `while True` loop with the futures as the last iteration left them:
\* queue.get() suspends on an empty queue only, run_in_executor raises on a pool that
\* was shut down and the handler then fails the batch without any suspension
ConsumerLoop(cs) ==
    IF batch_queue = <<>>
    THEN /\ consumer' = [pc |-> "get", batch |-> <<>>, cancelled |-> FALSE]
         /\ calls' = cs
         /\ UNCHANGED batch_queue
    ELSE IF executor = "running"
    THEN /\ consumer' = [pc |-> "run", batch |-> Head(batch_queue), cancelled |-> FALSE]
         /\ calls' = cs
         /\ batch_queue' = Tail(batch_queue)
    ELSE /\ consumer' = [pc |-> "get", batch |-> <<>>, cancelled |-> FALSE]
         /\ calls' = [c \in 1..Len(cs) |->
                        IF \E i \in 1..Len(batch_queue) : c \in FuturesOf(batch_queue[i])
                        THEN [cs[c] EXCEPT !.future = SetException(@, "RuntimeError")]
                        ELSE cs[c]]
         /\ batch_queue' = <<>>

\* the consumer, suspended in queue.get(), is woken by a queued batch
TakeBatch ==
    /\ consumer.pc = "get"
    /\ ~consumer.cancelled
    /\ batch_queue # <<>>
    /\ ConsumerLoop(calls)
    /\ UNCHANGED <<batch_size, gpu_available, max_memory_chunks, pending_requests,
                   processing_task, executor, stop_call, generated, last_generation>>
    /\ UNCHANGED cache_state
    /\ UNCHANGED <<codec_vars, store_vars, cache_vars, render_vars>>

\* faulty variant: the error handler leaves the loop after it has failed the batch
Finish_EndsOnFailure(o) ==
    /\ last_generation' = [batch |-> consumer.batch, gpu |-> o.gpu, cpu |-> o.cpu]
    /\ IF o.results = <<>>
       THEN /\ calls' = Fail(calls, consumer.batch, "GenerationError")
            /\ consumer' = [pc |-> "ended", batch |-> <<>>, cancelled |-> FALSE]
            /\ UNCHANGED <<batch_queue, generated>>
       ELSE /\ ConsumerLoop(Deliver(calls, consumer.batch, o.results))
            /\ generated' = [k \in Coords |->
                                generated[k] + Cardinality({i \in 1..Len(consumer.batch) :
                                                               consumer.batch[i].key = k})]

\* the effect of outcome o of the worker thread on the consumer's batch
Finish(o) ==
    /\ last_generation' = [batch |-> consumer.batch, gpu |-> o.gpu, cpu |-> o.cpu]
    /\ IF o.results = <<>>
       THEN /\ ConsumerLoop(Fail(calls, consumer.batch, "GenerationError"))
            /\ UNCHANGED generated
       ELSE /\ ConsumerLoop(Deliver(calls, consumer.batch, o.results))
            /\ generated' = [k \in Coords |->
                                generated[k] + Cardinality({i \in 1..Len(consumer.batch) :
                                                               consumer.batch[i].key = k})]

\* run_in_executor(_process_chunk_batch) completes and the consumer goes on to its
\* next suspension
FinishBatch ==
    /\ consumer.pc = "run"
    /\ ~consumer.cancelled
    /\ \E o \in _process_chunk_batch(CoordsOf(consumer.batch)) : Finish(o)
    /\ UNCHANGED <<batch_size, gpu_available, max_memory_chunks, pending_requests,
                   processing_task, executor, stop_call>>
    /\ UNCHANGED cache_state
    /\ UNCHANGED <<codec_vars, store_vars, cache_vars, render_vars>>

\* start()
start ==
    /\ processing_task = None
    /\ processing_task' = Some("task")
    /\ consumer' = [pc |-> "get", batch |-> <<>>, cancelled |-> FALSE]
    /\ UNCHANGED <<batch_size, gpu_available, max_memory_chunks, pending_requests,
                   batch_queue, executor, stop_call, calls, generated, last_generation>>
    /\ UNCHANGED cache_state
    /\ UNCHANGED <<codec_vars, store_vars, cache_vars, render_vars>>

\* stop() up to its suspension in gather, or to its end when there is no task
stop ==
    /\ stop_call = "idle"
    /\ IF processing_task # None
       THEN /\ consumer' = [consumer EXCEPT !.cancelled = TRUE]
            /\ stop_call' = "gather"
            /\ UNCHANGED executor
       ELSE /\ executor' = "shutdown"
            /\ UNCHANGED <<consumer, stop_call>>
    /\ UNCHANGED <<batch_size, gpu_available, max_memory_chunks, pending_requests,
                   batch_queue, processing_task, calls, generated, last_generation>>
    /\ UNCHANGED cache_state
    /\ UNCHANGED <<codec_vars, store_vars, cache_vars, render_vars>>

\* the cancelled consumer resumes with CancelledError and leaves its loop
ConsumerCancelled ==
    /\ consumer.cancelled
    /\ consumer.pc \in {"get", "run"}
    /\ consumer' = [pc |-> "ended", batch |-> <<>>, cancelled |-> FALSE]
    /\ UNCHANGED <<batch_size, gpu_available, max_memory_chunks, pending_requests,
                   batch_queue, processing_task, executor, stop_call, calls, generated,
                   last_generation>>
    /\ UNCHANGED cache_state
    /\ UNCHANGED <<codec_vars, store_vars, cache_vars, render_vars>>

\* faulty variant: stop() does not wait for the cancelled task
StopReturns_NoWait ==
    /\ stop_call = "gather"
    /\ processing_task' = None
    /\ executor' = "shutdown"
    /\ stop_call' = "idle"
    /\ UNCHANGED <<batch_size, gpu_available, max_memory_chunks, pending_requests,
                   batch_queue, consumer, calls, generated, last_generation>>
    /\ UNCHANGED cache_state
    /\ UNCHANGED <<codec_vars, store_vars, cache_vars, render_vars>>

\* gather returns in stop(), which goes on to its end
StopReturns ==
    /\ stop_call = "gather"
    /\ consumer.pc = "ended"
    /\ processing_task' = None
    /\ executor' = "shutdown"
    /\ stop_call' = "idle"
    /\ UNCHANGED <<batch_size, gpu_available, max_memory_chunks, pending_requests,
                   batch_queue, consumer, calls, generated, last_generation>>
    /\ UNCHANGED cache_state
    /\ UNCHANGED <<codec_vars, store_vars, cache_vars, render_vars>>

-----------------------------------------------------------------------------
(* SpecProcessor: one ChunkProcessor under process_chunk calls on every    *)
(* coordinate, cancellations of callers, start and stop                    *)

InitProcessor ==
    /\ data_str = <<>>
    /\ decoded = NotCalled
    /\ pack_in = <<>>
    /\ blob = NotCalled
    /\ unpacked = NotCalled
    /\ InitStore
    /\ \E batch_size_arg \in 1..MaxBatchSize, gpu \in BOOLEAN,
          memory_chunks \in 1..MaxMemoryChunks, world \in Worlds :
            ChunkProcessor(batch_size_arg, gpu, memory_chunks, world)
    /\ InitIdleCache
    /\ InitIdleRenderer

NextProcessor ==
    \/ \E key \in Coords : Len(calls) < MaxCalls /\ process_chunk(key)
    \/ \E c \in 1..MaxCalls : LoadReturns(c)
    \/ \E c \in 1..MaxCalls : FutureReturns(c)
    \/ \E c \in 1..MaxCalls : CancelCall(c)
    \/ TakeBatch
    \/ FinishBatch
    \/ start
    \/ stop
    \/ ConsumerCancelled
    \/ StopReturns

SpecProcessor == InitProcessor /\ [][NextProcessor]_vars

-----------------------------------------------------------------------------
(* Claims about the ChunkProcessor, checked under SpecProcessor *)

Calls == 1..Len(calls)
Delivered(c) == c \in FuturesOf(last_generation.batch)

\* C11: a result handle is assigned at most once: once the future of a call is done
\* (it holds a result or an error, or was cancelled) no step gives it anything else.
C11_AssignedAtMostOnce ==
    [][\A c \in Calls : Done(calls[c].future) => calls'[c].future = calls[c].future]_vars

\* a batch was delivered while one of its futures was already done (cancelled by its
\* caller) and another one took the result
C11_Witness ==
    \E c, d \in Calls :
        /\ Delivered(c) /\ Delivered(d)
        /\ last_generation.cpu = "ok"
        /\ calls[c].future.st = "cancelled"
        /\ calls[d].future.st = "result"

\* the event loop runs every task that can go on, and a worker thread finishes its job
FairSpecProcessor ==
    /\ SpecProcessor
    /\ WF_vars(TakeBatch)
    /\ WF_vars(FinishBatch)
    /\ WF_vars(ConsumerCancelled)
    /\ WF_vars(StopReturns)
    /\ \A c \in 1..MaxCalls : WF_vars(LoadReturns(c)) /\ WF_vars(FutureReturns(c))

\* start() has created the consumer and no stop() has been called since
Started == processing_task # None /\ stop_call = "idle"

Waiting(c) == c \in Calls /\ calls[c].future.st = "pending"

\* C12: while the processor is started and not stopped, every request that went to
\* generation (it has a pending future) is eventually resolved, whatever the number of
\* other requests.
C12_EveryRequestResolved ==
    \A c \in 1..MaxCalls : (Waiting(c) /\ Started) ~> (~Waiting(c) \/ ~Started)

\* the calls whose future is appended to the pending map by the step
Admitted ==
    {c \in 1..Len(calls') :
        /\ calls'[c].future.st = "pending"
        /\ (c > Len(calls) \/ calls[c].future.st = "none")}

QueuedFutures ==
    UNION {FuturesOf(batch_queue[i]) : i \in 1..Len(batch_queue)} \cup FuturesOf(consumer.batch)

AdmissionFormsBatch ==
    IF Admitted # {}
    THEN LET c == CHOOSE c \in Admitted : TRUE
             all == AppendFuture(pending_requests, calls'[c].key, c)
         IN  IF TotalPending(pending_requests) + 1 = batch_size
             THEN /\ batch_queue' = Append(batch_queue, all)
                  /\ pending_requests' = <<>>
             ELSE /\ batch_queue' = batch_queue
                  /\ pending_requests' = all
    ELSE /\ Len(batch_queue') <= Len(batch_queue)
         /\ pending_requests' = pending_requests

\* C13: a batch is formed exactly when the number of pending futures reaches batch_size;
\* it then takes every entry of the pending map and is queued as one batch.  So the map
\* always holds fewer than batch_size futures, and no future is at once in the map and in
\* a batch.
C13_BatchAtThreshold ==
    /\ [](TotalPending(pending_requests) < batch_size)
    /\ [](FuturesOf(pending_requests) \cap QueuedFutures = {})
    /\ [][AdmissionFormsBatch]_vars

\* a batch of two coordinates was formed at threshold 2 and a later request waits alone
C13_Witness ==
    /\ batch_size = 2
    /\ \E i \in 1..Len(batch_queue) : Len(batch_queue[i]) = 2
    /\ TotalPending(pending_requests) = 1

DistinctKeys(entries) ==
    \A i, j \in 1..Len(entries) : entries[i].key = entries[j].key => i = j

\* the step is the delivery of the consumer's batch after a successful generation
Delivery == generated' # generated

SharedGeneration ==
    Delivery =>
        /\ \A i \in 1..Len(consumer.batch) :
              generated'[consumer.batch[i].key] = generated[consumer.batch[i].key] + 1
        /\ \A i \in 1..Len(consumer.batch) :
              \A c, d \in Range(consumer.batch[i].futures) :
                 calls'[c].future.st = "result" /\ calls'[d].future.st = "result"
                    => /\ calls'[c].future.value = calls'[d].future.value
                       /\ The(calls'[c].future.value).key = consumer.batch[i].key

\* C14: the requests for one coordinate made before its batch is formed share one
\* generation call: the pending map and every batch hold the coordinate once, the delivery
\* of a batch generates each of its coordinates once, and all futures of the coordinate
\* that take a result take the same one.
C14_DuplicatesShareGeneration ==
    /\ [](DistinctKeys(pending_requests) /\ DistinctKeys(consumer.batch))
    /\ [](\A i \in 1..Len(batch_queue) : DistinctKeys(batch_queue[i]))
    /\ [][SharedGeneration]_vars

\* two requests for one coordinate went into one batch and both took its result
C14_Witness ==
    \E c, d \in Calls :
        /\ c # d
        /\ calls[c].key = calls[d].key
        /\ Delivered(c) /\ Delivered(d)
        /\ calls[c].future.st = "result" /\ calls[d].future.st = "result"
        /\ generated[calls[c].key] = 1

\* the step is the consumer's handling of a generation that raised
Failure == last_generation' # last_generation /\ last_generation'.cpu = "raised"

FailureReachesAll ==
    Failure =>
        \A c \in FuturesOf(consumer.batch) :
            ~Done(calls[c].future) =>
                calls'[c].future = [st |-> "exception", value |-> None,
                                    err |-> "GenerationError"]

\* C15: when the generation of a batch raises, every future of the batch that is not
\* done takes the error, so no future of a failed batch stays pending or holds a result.
C15_FailureReachesEveryHandle ==
    /\ [][FailureReachesAll]_vars
    /\ [](last_generation.cpu = "raised" =>
            \A c \in FuturesOf(last_generation.batch) :
                calls[c].future.st \in {"exception", "cancelled"})

\* the generation of a batch of two coordinates raised and both futures hold the error
C15_Witness ==
    /\ last_generation.cpu = "raised"
    /\ Len(last_generation.batch) = 2
    /\ \A c \in FuturesOf(last_generation.batch) : calls[c].future.st = "exception"

\* the step is the consumer's handling of a generation whose accelerator path failed
Fallback == last_generation' # last_generation /\ last_generation'.gpu = "failed"

FallbackGenerates ==
    Fallback =>
        /\ last_generation'.cpu # "none"
        /\ last_generation'.cpu = "ok" =>
              \A c \in FuturesOf(consumer.batch) :
                  ~Done(calls[c].future) =>
                      /\ calls'[c].future.st = "result"
                      /\ The(calls'[c].future.value).path = "cpu"

\* C16: when the accelerator path fails on a batch the worker-pool path generates it and
\* the futures take its results; a future of the batch holds an error only when the
\* worker-pool path raised too.
C16_AcceleratorFallback ==
    /\ [][FallbackGenerates]_vars
    /\ [](\A c \in FuturesOf(last_generation.batch) :
            calls[c].future.st = "exception" => last_generation.cpu = "raised")

\* the accelerator failed on a batch and a future took the worker-pool result
C16_Witness ==
    /\ gpu_available
    /\ last_generation.gpu = "failed"
    /\ last_generation.cpu = "ok"
    /\ \E c \in FuturesOf(last_generation.batch) :
          /\ calls[c].future.st = "result"
          /\ The(calls[c].future.value).path = "cpu"

\* C17: generation is deterministic given (x, y, z): any two chunks produced for one
\* coordinate are identical, so two process_chunk calls for one coordinate never return
\* different chunks.
C17_SameCoordinateSameChunk ==
    \A c, d \in Calls :
        /\ calls[c].key = calls[d].key
        /\ calls[c].pc = "returned"
        /\ calls[d].pc = "returned"
        => calls[c].ret = calls[d].ret

Running == consumer.pc \in {"get", "run"}

\* the step is the return of a stop() call: the executor changes at that point only
StopReturn == (stop_call = "gather" /\ stop_call' = "idle") \/ executor' # executor

Resolved(fut) == fut.st \in {"result", "exception"}

StoppedStaysQuiet ==
    /\ StopReturn => ~Running' /\ executor' = "shutdown" /\ processing_task' = None
    /\ processing_task = None /\ processing_task' = None =>
          \A c \in Calls : ~Done(calls[c].future) => ~Resolved(calls'[c].future)

\* C18: when stop() returns the consumer has left its loop and the executor is shut
\* down, with or without a batch in flight or queued; from then until start() creates a
\* new task the consumer is not running and no future is resolved.
C18_StopEndsConsumer ==
    /\ [][StoppedStaysQuiet]_vars
    /\ [](processing_task = None => ~Running)

\* stop() has returned while a batch was in flight (its future is left pending, in
\* neither the map nor the queue) and another batch was queued
C18_Witness ==
    /\ processing_task = None
    /\ executor = "shutdown"
    /\ consumer.pc = "ended"
    /\ batch_queue # <<>>
    /\ \E c \in Calls :
          /\ calls[c].future.st = "pending"
          /\ c \notin FuturesOf(pending_requests)
          /\ c \notin QueuedFutures

\* a processor without accelerator, in a world whose listed chunk has lost its file
InitConsumer ==
    /\ data_str = <<>>
    /\ decoded = NotCalled
    /\ pack_in = <<>>
    /\ blob = NotCalled
    /\ unpacked = NotCalled
    /\ InitStore
    /\ \E batch_size_arg \in 1..MaxBatchSize :
          ChunkProcessor(batch_size_arg, FALSE, MaxMemoryChunks,
                         [index |-> {<<0, 0, 0>>}, files |-> <<>>])
    /\ InitIdleCache
    /\ InitIdleRenderer

\* the runs of that processor, with the scheduling of FairSpecProcessor
FairSpecConsumer ==
    /\ InitConsumer /\ [][NextProcessor]_vars
    /\ WF_vars(TakeBatch)
    /\ WF_vars(FinishBatch)
    /\ WF_vars(ConsumerCancelled)
    /\ WF_vars(StopReturns)
    /\ \A c \in 1..MaxCalls : WF_vars(LoadReturns(c)) /\ WF_vars(FutureReturns(c))

\* the consumer after a failed generation: it is back in its loop, with the oldest
\* queued batch in the worker thread or, on an empty queue, waiting for the next one
SurvivesFailure ==
    Failure =>
        /\ Running'
        /\ (batch_queue # <<>> /\ executor = "running") =>
              /\ consumer'.pc = "run"
              /\ consumer'.batch = Head(batch_queue)
        /\ consumer'.pc = "get" => batch_queue' = <<>>

\* the queue is first in, first out, and a batch leaves it for the worker thread only
\* when the consumer has no batch there or has just finished one
OneAtATimeInOrder ==
    (batch_queue' # batch_queue /\ executor = "running") =>
        \/ /\ Len(batch_queue') = Len(batch_queue) + 1
           /\ SubSeq(batch_queue', 1, Len(batch_queue)) = batch_queue
        \/ /\ batch_queue # <<>>
           /\ batch_queue' = Tail(batch_queue)
           /\ consumer'.pc = "run"
           /\ consumer'.batch = Head(batch_queue)
           /\ consumer.pc = "get" \/ last_generation'.batch = consumer.batch

\* C40: a failed generation does not end the consumer.  While the processor is started,
\* the consumer goes on with the next queued batch after a failure, every future of a
\* batch that is queued after a failure and still pending is eventually resolved (or
\* cancelled by its caller), and batches go to the worker thread one at a time, oldest first.
C40_ConsumerSurvivesFailure ==
    /\ [][SurvivesFailure /\ OneAtATimeInOrder]_vars
    /\ \A c \in 1..MaxCalls :
          (Waiting(c) /\ c \in QueuedFutures /\ last_generation.cpu = "raised" /\ Started)
             ~> (~Waiting(c) \/ ~Started)

\* the generation of one batch raised and a later call was served by a later batch
C40_Witness ==
    \E c, d \in Calls :
        /\ c < d
        /\ calls[c].future.st = "exception"
        /\ calls[c].future.err = "GenerationError"
        /\ Delivered(d)
        /\ ~Delivered(c)
        /\ last_generation.cpu = "ok"
        /\ calls[d].future.st = "result"

\* C19: the in-process cache is bounded by eviction: in every state (so after every
\* caching operation) the number of resident chunks is at most max_memory_chunks.
C19_CacheWithinBudget == Cardinality(DOMAIN chunk_cache) <= max_memory_chunks

-----------------------------------------------------------------------------------------------------------------------------------------------------
(* ChunkCache over ChunkStorage                                            *)

DefaultRadius == 2   \* default radius of ChunkCache.prefetch

CacheHas(key) == \E i \in 1..Len(cache) : cache[i].key = key
CacheValue(key) == cache[CHOOSE i \in 1..Len(cache) : cache[i].key = key].value

\* faulty variant: an entry that is used keeps its place
MoveToEnd_Stay(items, key) == items

\* OrderedDict.move_to_end(key)
MoveToEnd(items, key) ==
    SelectSeq(items, LAMBDA e : e.key # key) \o SelectSeq(items, LAMBDA e : e.key = key)

\* OrderedDict item assignment: a present key keeps its place
Assign(items, key, value) ==
    IF \E i \in 1..Len(items) : items[i].key = key
    THEN [i \in 1..Len(items) |->
            IF items[i].key = key THEN [key |-> key, value |-> value] ELSE items[i]]
    ELSE Append(items, [key |-> key, value |-> value])

\* faulty variant: the oldest entry goes only when the cache is two over its capacity
Evict_Late(items) == IF Len(items) > max_size + 1 THEN Tail(items) ELSE items

\* `if len(self.cache) > self.max_size: self.cache.popitem(last=False)`
Evict(items) == IF Len(items) > max_size THEN Tail(items) ELSE items

\* `async with self.lock` around statements without a suspension: a free lock is
\* taken without suspending and is released within the same step
WithLock(section) ==
    /\ lock = None
    /\ section
    /\ lock' = None

\* the locked section of put
PutLocked(key, d) ==
    /\ cache' = Evict(MoveToEnd(Assign(cache, key, Compressed(d)), key))
    /\ accessed' = Touch(accessed, key)

CacheCall(op, key, d, pc) == [op |-> op, key |-> key, data |-> d, pc |-> pc, ret |-> None]

\* calls that have neither returned nor raised
InFlight == Cardinality({c \in 1..Len(cache_calls) :
                            cache_calls[c].pc \notin {"returned", "raised"}})

\* ChunkStorage._get_chunk_path: region_dir.mkdir(exist_ok=True) raises in a data
\* directory that is gone or closed
PathRaises == ~data_dir_ok

\* storage.load up to its first suspension, as the position of the caller: None for
\* an unlisted chunk, the exception of _get_chunk_path, or the opening of the file
LoadStarts(key) ==
    IF key \notin chunk_index THEN "returned"
    ELSE IF PathRaises THEN "raised"
    ELSE "load"

\* get up to its first suspension, for call c of cs: the locked lookup, then
\* storage.load
Lookup(c, cs) ==
    IF CacheHas(cs[c].key)
    THEN /\ cache' = MoveToEnd(cache, cs[c].key)
         /\ accessed' = Touch(accessed, cs[c].key)
         /\ cache_calls' = [cs EXCEPT ![c].pc = "returned",
                                      ![c].ret = Some(Loaded(CacheValue(cs[c].key)))]
    ELSE /\ UNCHANGED <<cache, accessed>>
         /\ cache_calls' = [cs EXCEPT ![c].pc = LoadStarts(cs[c].key)]

\* ChunkCache.get(key), called by a task
get(key) ==
    /\ Len(cache_calls) < MaxCacheCalls
    /\ InFlight < MaxInFlight
    /\ WithLock(Lookup(Len(cache_calls) + 1,
                       Append(cache_calls, CacheCall("get", key, 0, "start"))))
    /\ UNCHANGED <<max_size, disk_vars, direct_vars>>
    /\ UNCHANGED <<codec_vars, store_vars, proc_vars, render_vars>>

\* a get that prefetch handed to gather starts running
GetRuns(c) ==
    /\ c \in 1..Len(cache_calls)
    /\ cache_calls[c].pc = "start"
    /\ WithLock(Lookup(c, cache_calls))
    /\ UNCHANGED <<max_size, disk_vars, direct_vars>>
    /\ UNCHANGED <<codec_vars, store_vars, proc_vars, render_vars>>

\* what the read of storage.load finds: the file is there and holds a chunk
Readable(key) == key \in DOMAIN region_files /\ Loadable(region_files[key])

\* `await f.read()` of storage.load completes in get call c: unreadable bytes give
\* None, readable ones are unpacked and the call waits for the close of the file
GetReads(c) ==
    /\ c \in 1..Len(cache_calls)
    /\ cache_calls[c].pc = "load"
    /\ IF Readable(cache_calls[c].key)
       THEN cache_calls' = [cache_calls EXCEPT
                              ![c].pc = "loaded",
                              ![c].data = Loaded(region_files[cache_calls[c].key])]
       ELSE cache_calls' = [cache_calls EXCEPT ![c].pc = "returned"]
    /\ UNCHANGED <<max_size, cache, lock, accessed, disk_vars, direct_vars>>
    /\ UNCHANGED <<codec_vars, store_vars, proc_vars, render_vars>>

\* faulty variant: data found in the storage is put with save_to_storage left on
GetLoaded_Resave(c) ==
    /\ c \in 1..Len(cache_calls)
    /\ cache_calls[c].pc = "loaded"
    /\ cache_calls' = [cache_calls EXCEPT ![c].pc = "save"]
    /\ UNCHANGED <<max_size, cache, lock, accessed, disk_vars, direct_vars>>
    /\ UNCHANGED <<codec_vars, store_vars, proc_vars, render_vars>>

\* the file of storage.load is closed in get call c: the data that was read is put in
\* the cache (save_to_storage=False) and returned
GetLoaded(c) ==
    /\ c \in 1..Len(cache_calls)
    /\ cache_calls[c].pc = "loaded"
    /\ WithLock(PutLocked(cache_calls[c].key, cache_calls[c].data))
    /\ cache_calls' = [cache_calls EXCEPT ![c].pc = "returned",
                                          ![c].ret = Some(cache_calls[c].data)]
    /\ UNCHANGED <<max_size, disk_vars, direct_vars>>
    /\ UNCHANGED <<codec_vars, store_vars, proc_vars, render_vars>>

\* faulty variant: put takes the lock before it saves and keeps it until it has cached
put_HoldsLock(key, d) ==
    /\ Len(cache_calls) < MaxCacheCalls
    /\ InFlight < MaxInFlight
    /\ lock = None
    /\ lock' = Some(Len(cache_calls) + 1)
    /\ cache_calls' = Append(cache_calls, CacheCall("put", key, d, "save"))
    /\ UNCHANGED <<max_size, cache, accessed, disk_vars, direct_vars>>
    /\ UNCHANGED <<codec_vars, store_vars, proc_vars, render_vars>>

\* ChunkCache.put(key, d) with save_to_storage, up to the opening of the file in
\* storage.save; the exception of _get_chunk_path ends the call
put(key, d) ==
    /\ Len(cache_calls) < MaxCacheCalls
    /\ InFlight < MaxInFlight
    /\ cache_calls' = Append(cache_calls,
                             CacheCall("put", key, d, IF PathRaises THEN "raised" ELSE "save"))
    /\ UNCHANGED <<max_size, cache, lock, accessed, disk_vars, direct_vars>>
    /\ UNCHANGED <<codec_vars, store_vars, proc_vars, render_vars>>

\* aiofiles.open(chunk_path, 'wb'): the file is created or truncated
Truncated(files, key) == (key :> <<>>) @@ files

\* faulty variant: the pickled chunk is written as it is
Written_Raw(files, key, d) == (key :> pickle_dumps(d)) @@ files

\* f.write(compressed) and the close of the file
Written(files, key, d) == (key :> Compressed(d)) @@ files

\* `if len(self.chunk_index) % 10 == 0`, on the index with key listed
Flushes(index, key) == Cardinality(index \cup {key}) % MetaEvery = 0

\* aiofiles.open(chunk_path, 'wb') completes in put call c
SaveOpens(c) ==
    /\ c \in 1..Len(cache_calls)
    /\ cache_calls[c].pc = "save"
    /\ region_files' = Truncated(region_files, cache_calls[c].key)
    /\ cache_calls' = [cache_calls EXCEPT ![c].pc = "write"]
    /\ UNCHANGED <<max_size, cache, lock, accessed, chunk_index, metadata_file, data_dir_ok>>
    /\ UNCHANGED direct_vars
    /\ UNCHANGED <<codec_vars, store_vars, proc_vars, render_vars>>

\* `await f.write(compressed)` completes in put call c, which waits for the close of
\* the file
SaveWrites(c) ==
    /\ c \in 1..Len(cache_calls)
    /\ cache_calls[c].pc = "write"
    /\ region_files' = Written(region_files, cache_calls[c].key, cache_calls[c].data)
    /\ cache_calls' = [cache_calls EXCEPT ![c].pc = "written"]
    /\ UNCHANGED <<max_size, cache, lock, accessed, chunk_index, metadata_file, data_dir_ok>>
    /\ UNCHANGED direct_vars
    /\ UNCHANGED <<codec_vars, store_vars, proc_vars, render_vars>>

\* faulty variant: the file of the chunk that leaves the cache is removed with it
SaveCloses_Unlink(c) ==
    /\ c \in 1..Len(cache_calls)
    /\ cache_calls[c].pc = "written"
    /\ region_files' =
         [k \in DOMAIN region_files
                \ (IF Len(cache) >= max_size /\ ~CacheHas(cache_calls[c].key)
                   THEN {cache[1].key} ELSE {})
            |-> region_files[k]]
    /\ chunk_index' = chunk_index \cup {cache_calls[c].key}
    /\ metadata_file' = IF Flushes(chunk_index, cache_calls[c].key)
                        THEN chunk_index \cup {cache_calls[c].key}
                        ELSE metadata_file
    /\ WithLock(PutLocked(cache_calls[c].key, cache_calls[c].data))
    /\ cache_calls' = [cache_calls EXCEPT ![c].pc = "returned"]
    /\ UNCHANGED <<max_size, data_dir_ok, direct_vars>>
    /\ UNCHANGED <<codec_vars, store_vars, proc_vars, render_vars>>

\* the file is closed in put call c: storage.save lists the chunk and writes the
\* metadata at every MetaEvery-th entry, then put runs its locked section
SaveCloses(c) ==
    /\ c \in 1..Len(cache_calls)
    /\ cache_calls[c].pc = "written"
    /\ chunk_index' = chunk_index \cup {cache_calls[c].key}
    /\ metadata_file' = IF Flushes(chunk_index, cache_calls[c].key)
                        THEN chunk_index \cup {cache_calls[c].key}
                        ELSE metadata_file
    /\ WithLock(PutLocked(cache_calls[c].key, cache_calls[c].data))
    /\ cache_calls' = [cache_calls EXCEPT ![c].pc = "returned"]
    /\ UNCHANGED <<max_size, region_files, data_dir_ok, direct_vars>>
    /\ UNCHANGED <<codec_vars, store_vars, proc_vars, render_vars>>

\* ChunkCache.exists(key): the locked look in the cache, then the index of the storage
exists(key) ==
    /\ Len(cache_calls) < MaxCacheCalls
    /\ InFlight < MaxInFlight
    /\ lock = None
    /\ cache_calls' = Append(cache_calls,
                             [CacheCall("exists", key, 0, "returned") EXCEPT
                                !.ret = Some(CacheHas(key) \/ key \in chunk_index)])
    /\ UNCHANGED <<max_size, cache, lock, accessed, disk_vars, direct_vars>>
    /\ UNCHANGED <<codec_vars, store_vars, proc_vars, render_vars>>

\* the coordinates of the model in the order of prefetch's loops
CoordSeq == [i \in 1..(MaxCacheCoord + 1) |-> <<i - 1, 0, 0>>]

Within(key, center, radius) ==
    \A i \in 1..3 : key[i] - center[i] \in (0 - radius)..radius

\* ChunkCache.prefetch: the gets handed to gather, one per chunk around center that is
\* listed by the storage and not cached
Prefetched(center, radius) ==
    SelectSeq(CoordSeq, LAMBDA k : Within(k, center, radius) /\ ~CacheHas(k)
                                                            /\ k \in chunk_index)

StartGets(keys) ==
    cache_calls' = cache_calls \o [i \in 1..Len(keys) |-> CacheCall("get", keys[i], 0, "start")]

prefetch(center, radius) ==
    /\ Prefetched(center, radius) # <<>>
    /\ Len(cache_calls) + Len(Prefetched(center, radius)) <= MaxCacheCalls
    /\ InFlight + Len(Prefetched(center, radius)) <= MaxInFlight
    /\ lock = None
    /\ StartGets(Prefetched(center, radius))
    /\ UNCHANGED <<max_size, cache, lock, accessed, disk_vars, direct_vars>>
    /\ UNCHANGED <<codec_vars, store_vars, proc_vars, render_vars>>

-----------------------------------------------------------------------------
(* SpecCache: one ChunkCache under get, put, exists and prefetch calls of  *)
(* concurrent tasks, over a data directory that stays usable               *)

InitCache ==
    /\ data_str = <<>>
    /\ decoded = NotCalled
    /\ pack_in = <<>>
    /\ blob = NotCalled
    /\ unpacked = NotCalled
    /\ InitStore
    /\ InitIdleProcessor
    /\ \E size \in 1..MaxCacheSize, store \in Stores : ChunkCache(size, store)
    /\ InitIdleRenderer

NextCache ==
    \/ \E key \in CacheCoords : get(key)
    \/ \E c \in 1..MaxCacheCalls : GetRuns(c)
    \/ \E c \in 1..MaxCacheCalls : GetReads(c)
    \/ \E c \in 1..MaxCacheCalls : GetLoaded(c)
    \/ \E key \in CacheCoords, d \in Data : put(key, d)
    \/ \E c \in 1..MaxCacheCalls : SaveOpens(c)
    \/ \E c \in 1..MaxCacheCalls : SaveWrites(c)
    \/ \E c \in 1..MaxCacheCalls : SaveCloses(c)
    \/ \E key \in CacheCoords : exists(key)
    \/ \E center \in CacheCoords, radius \in {0, DefaultRadius} : prefetch(center, radius)

SpecCache == InitCache /\ [][NextCache]_vars

-----------------------------------------------------------------------------
(* Claims about the ChunkCache, checked under SpecCache *)

\* C20: the cache never holds more than max_size entries: in every state, so after
\* every put, under any interleaving of get, put and prefetch calls.
C20_CacheWithinCapacity == Len(cache) <= max_size

PutDone(key) ==
    \E c \in 1..Len(cache_calls) :
        /\ cache_calls[c].op = "put"
        /\ cache_calls[c].pc = "returned"
        /\ cache_calls[c].key = key

\* puts of two coordinates have completed on a cache of capacity 1, which holds one entry
C20_Witness ==
    /\ max_size = 1
    /\ PutDone(<<0, 0, 0>>)
    /\ PutDone(<<1, 0, 0>>)
    /\ Len(cache) = 1

Resident == {cache[i].key : i \in 1..Len(cache)}
ResidentAfter == {cache'[i].key : i \in 1..Len(cache')}

\* the place of a coordinate in the history of accesses
LastAccess(k) == CHOOSE i \in 1..Len(accessed) : accessed[i] = k

GetDone(key) ==
    \E c \in 1..Len(cache_calls) :
        /\ cache_calls[c].op = "get"
        /\ cache_calls[c].pc = "returned"
        /\ cache_calls[c].key = key

\* C21: a step that inserts a new coordinate into a full cache evicts exactly one
\* entry, nothing else ever leaves the cache, and the entry that leaves is the resident
\* coordinate whose last access (a put or a get hit) is the oldest.
C21_EvictsLeastRecentlyAccessed ==
    [][/\ (ResidentAfter \ Resident # {} /\ Len(cache) = max_size)
            => Cardinality(Resident \ ResidentAfter) = 1
       /\ \A k \in Resident \ ResidentAfter :
            /\ Len(cache) = max_size
            /\ Cardinality(ResidentAfter \ Resident) = 1
            /\ Resident \ ResidentAfter = {k}
            /\ \A j \in Resident : LastAccess(k) <= LastAccess(j)]_vars

\* capacity 2: chunks 0 and 1 were put, chunk 0 was hit by a get, and the put of chunk
\* 2 then evicted chunk 1
C21_Witness ==
    /\ max_size = 2
    /\ accessed = << <<1, 0, 0>>, <<0, 0, 0>>, <<2, 0, 0>> >>
    /\ Resident = {<<0, 0, 0>>, <<2, 0, 0>>}
    /\ PutDone(<<0, 0, 0>>) /\ PutDone(<<1, 0, 0>>) /\ PutDone(<<2, 0, 0>>)
    /\ GetDone(<<0, 0, 0>>)

\* get call c takes a step
GetSteps(c) ==
    /\ cache_calls'[c].op = "get"
    /\ (c > Len(cache_calls) \/ cache_calls'[c] # cache_calls[c])

\* the read of get call c finds the chunk in the storage
GetFinds(c) ==
    /\ c \in 1..Len(cache_calls)
    /\ cache_calls[c].op = "get"
    /\ cache_calls[c].pc = "load"
    /\ Readable(cache_calls[c].key)

\* get call c has read its chunk and goes on after the close of the file
GetFound(c) ==
    /\ c \in 1..Len(cache_calls)
    /\ cache_calls[c].op = "get"
    /\ cache_calls[c].pc = "loaded"

\* C22: no step of a get writes to the storage (files, index and metadata stay as they
\* are), and a get that missed the cache and finds its chunk in the storage takes the
\* stored data from the file, returns that data and leaves the coordinate in the cache
\* with it.
C22_StoreHitRefillsCache ==
    [][\A c \in 1..Len(cache_calls') :
          /\ GetSteps(c) => UNCHANGED <<chunk_index, region_files, metadata_file>>
          /\ (GetFinds(c) /\ cache_calls'[c] # cache_calls[c]) =>
                /\ cache_calls'[c].pc = "loaded"
                /\ cache_calls'[c].data = Loaded(region_files[cache_calls[c].key])
          /\ (GetFound(c) /\ cache_calls'[c] # cache_calls[c]) =>
                /\ cache_calls'[c].pc = "returned"
                /\ cache_calls'[c].ret = Some(cache_calls[c].data)
                /\ \E i \in 1..Len(cache') :
                      /\ cache'[i].key = cache_calls[c].key
                      /\ cache'[i].value = Compressed(cache_calls[c].data)]_vars

\* capacity 1: chunk 0 was put with data 2 and evicted by the put of chunk 1; the get
\* of chunk 0 that followed returned data 2 from the storage and chunk 0 is cached again
C22_Witness ==
    /\ max_size = 1
    /\ Len(cache_calls) = 3
    /\ cache_calls[1] = [CacheCall("put", <<0, 0, 0>>, 2, "returned") EXCEPT !.ret = None]
    /\ cache_calls[2].op = "put" /\ cache_calls[2].key = <<1, 0, 0>>
    /\ cache_calls[2].pc = "returned"
    /\ cache_calls[3] = [CacheCall("get", <<0, 0, 0>>, 0, "returned") EXCEPT !.ret = Some(2)]
    /\ Resident = {<<0, 0, 0>>}

\* C23: a coordinate that leaves the cache keeps its record in the storage: its index
\* entry, its file with the same bytes and its metadata entry are there after the step
\* that evicts it, so exists and load on the storage answer as before.
C23_EvictionKeepsStorage ==
    [][\A k \in Resident \ ResidentAfter :
          /\ k \in chunk_index => k \in chunk_index'
          /\ k \in metadata_file => k \in metadata_file'
          /\ k \in DOMAIN region_files =>
                (k \in DOMAIN region_files' /\ region_files'[k] = region_files[k])]_vars

\* capacity 1: chunk 0 was evicted by the put of chunk 1 and the storage still lists
\* and holds it
C23_Witness ==
    /\ max_size = 1
    /\ PutDone(<<0, 0, 0>>)
    /\ PutDone(<<1, 0, 0>>)
    /\ Resident = {<<1, 0, 0>>}
    /\ <<0, 0, 0>> \in chunk_index
    /\ Readable(<<0, 0, 0>>)

\* a load or save of the storage is in progress in call c
StoragePending(c) == cache_calls[c].pc \in {"load", "loaded", "save", "write", "written"}

\* C24: whenever a load or a save of the storage is in progress for some call, the
\* lock of the cache is free, so that any other caller can take it.
C24_LockFreeDuringStorageIO ==
    (\E c \in 1..Len(cache_calls) : StoragePending(c)) => lock = None

\* while the save of a put is writing its file, a get of another task has gone through
\* its locked lookup and returned
C24_Witness ==
    /\ Len(cache_calls) = 2
    /\ cache_calls[1].op = "put"
    /\ cache_calls[1].pc = "write"
    /\ cache_calls[2].op = "get"
    /\ cache_calls[2].pc = "returned"

\* C38: once every get and put call on the cache has completed, each coordinate in the
\* cache is held with the bytes that the file of the storage holds for it.
C38_CacheNeverStale ==
    InFlight = 0 =>
        \A i \in 1..Len(cache) :
            /\ cache[i].key \in DOMAIN region_files
            /\ cache[i].value = region_files[cache[i].key]

-----------------------------------------------------------------------------
(* ChunkStorage called directly: save, load and exists calls of concurrent *)
(* tasks, in a data directory that may be lost while the server runs       *)

StorageCall(op, key, d, pc) == [op |-> op, key |-> key, data |-> d, pc |-> pc]

\* a completed call: it raised, or it returned; found is the bool of exists, whether
\* load returned data (then data is what it returned) and whether save wrote its file
Outcome(op, key, raised, found, d) ==
    [op |-> op, key |-> key, raised |-> raised, found |-> found, data |-> d]

\* ChunkStorage.exists(key), called by task t
storage_exists(t, key) ==
    /\ storage_calls[t] = Idle
    /\ last_storage_call' = Outcome("exists", key, FALSE, key \in chunk_index, 0)
    /\ UNCHANGED <<storage_calls, unflushed, last_saved>>
    /\ UNCHANGED <<lru_vars, disk_vars>>
    /\ UNCHANGED <<codec_vars, store_vars, proc_vars, render_vars>>

\* ChunkStorage.load(key), called by task t, up to the opening of the file
storage_load(t, key) ==
    /\ storage_calls[t] = Idle
    /\ IF LoadStarts(key) = "load"
       THEN /\ storage_calls' = [storage_calls EXCEPT ![t] = StorageCall("load", key, 0, "load")]
            /\ UNCHANGED last_storage_call
       ELSE /\ last_storage_call' = Outcome("load", key, LoadStarts(key) = "raised", FALSE, 0)
            /\ UNCHANGED storage_calls
    /\ UNCHANGED <<unflushed, last_saved>>
    /\ UNCHANGED <<lru_vars, disk_vars>>
    /\ UNCHANGED <<codec_vars, store_vars, proc_vars, render_vars>>

\* the open and the read of load complete in task t: a file that cannot be opened or
\* decompressed gives None
LoadReads(t) ==
    /\ storage_calls[t].pc = "load"
    /\ last_storage_call' = IF data_dir_ok /\ Readable(storage_calls[t].key)
                    THEN Outcome("load", storage_calls[t].key, FALSE, TRUE,
                                 Loaded(region_files[storage_calls[t].key]))
                    ELSE Outcome("load", storage_calls[t].key, FALSE, FALSE, 0)
    /\ storage_calls' = [storage_calls EXCEPT ![t] = Idle]
    /\ UNCHANGED <<unflushed, last_saved>>
    /\ UNCHANGED <<lru_vars, disk_vars>>
    /\ UNCHANGED <<codec_vars, store_vars, proc_vars, render_vars>>

\* ChunkStorage.save(key, d), called by task t, up to the opening of the file
storage_save(t, key, d) ==
    /\ storage_calls[t] = Idle
    /\ IF PathRaises
       THEN /\ last_storage_call' = Outcome("save", key, TRUE, FALSE, 0)
            /\ UNCHANGED storage_calls
       ELSE /\ storage_calls' = [storage_calls EXCEPT ![t] = StorageCall("save", key, d, "save")]
            /\ UNCHANGED last_storage_call
    /\ UNCHANGED <<unflushed, last_saved>>
    /\ UNCHANGED <<lru_vars, disk_vars>>
    /\ UNCHANGED <<codec_vars, store_vars, proc_vars, render_vars>>

\* aiofiles.open(chunk_path, 'wb') completes in task t; its exception is logged by save
StorageSaveOpens(t) ==
    /\ storage_calls[t].pc = "save"
    /\ IF data_dir_ok
       THEN /\ region_files' = Truncated(region_files, storage_calls[t].key)
            /\ storage_calls' = [storage_calls EXCEPT ![t].pc = "write"]
            /\ UNCHANGED last_storage_call
       ELSE /\ last_storage_call' = Outcome("save", storage_calls[t].key, FALSE, FALSE, 0)
            /\ storage_calls' = [storage_calls EXCEPT ![t] = Idle]
            /\ UNCHANGED region_files
    /\ UNCHANGED <<chunk_index, metadata_file, data_dir_ok, unflushed, last_saved>>
    /\ UNCHANGED lru_vars
    /\ UNCHANGED <<codec_vars, store_vars, proc_vars, render_vars>>

\* save_metadata as save calls it writes metadata.json; its exception is logged
MetadataWritten(index, key) == Flushes(index, key) /\ data_dir_ok

\* the write completes in task t: save lists the chunk, and writes the metadata when
\* the index has a multiple of MetaEvery entries
StorageSaveWrites(t) ==
    /\ storage_calls[t].pc = "write"
    /\ region_files' = Written(region_files, storage_calls[t].key, storage_calls[t].data)
    /\ chunk_index' = chunk_index \cup {storage_calls[t].key}
    /\ metadata_file' = IF MetadataWritten(chunk_index, storage_calls[t].key)
                        THEN chunk_index \cup {storage_calls[t].key}
                        ELSE metadata_file
    /\ unflushed' = IF MetadataWritten(chunk_index, storage_calls[t].key) THEN 0
                    ELSE Min({unflushed + 1, MetaEvery})
    /\ last_saved' = [last_saved EXCEPT ![storage_calls[t].key] = Some(storage_calls[t].data)]
    /\ last_storage_call' = Outcome("save", storage_calls[t].key, FALSE, TRUE, storage_calls[t].data)
    /\ storage_calls' = [storage_calls EXCEPT ![t] = Idle]
    /\ UNCHANGED <<data_dir_ok, lru_vars>>
    /\ UNCHANGED <<codec_vars, store_vars, proc_vars, render_vars>>

\* the data directory is removed, or closed to the server, by someone else
DataDirLost ==
    /\ data_dir_ok
    /\ data_dir_ok' = FALSE
    /\ UNCHANGED <<chunk_index, region_files, metadata_file, lru_vars, direct_vars>>
    /\ UNCHANGED <<codec_vars, store_vars, proc_vars, render_vars>>

InitStorage ==
    /\ data_str = <<>>
    /\ decoded = NotCalled
    /\ pack_in = <<>>
    /\ blob = NotCalled
    /\ unpacked = NotCalled
    /\ InitStore
    /\ InitIdleProcessor
    /\ \E store \in Directories : ChunkCache(1, store)
    /\ InitIdleRenderer

NextStorage ==
    \/ \E t \in 1..NumStorageTasks, key \in Coords : storage_exists(t, key)
    \/ \E t \in 1..NumStorageTasks, key \in Coords : storage_load(t, key)
    \/ \E t \in 1..NumStorageTasks : LoadReads(t)
    \/ \E t \in 1..NumStorageTasks, key \in Coords, d \in Data : storage_save(t, key, d)
    \/ \E t \in 1..NumStorageTasks : StorageSaveOpens(t)
    \/ \E t \in 1..NumStorageTasks : StorageSaveWrites(t)
    \/ DataDirLost

SpecStorage == InitStorage /\ [][NextStorage]_vars

-----------------------------------------------------------------------------
(* Claims about the ChunkStorage, checked under SpecStorage *)

\* a save of coordinate k is in progress
Saving(k) ==
    \E t \in 1..NumStorageTasks : storage_calls[t].op = "save" /\ storage_calls[t].key = k

\* coordinate k has been saved and no save of it is in progress
Saved(k) == last_saved[k] # None /\ ~Saving(k)

\* C25: once a save of (c, d) has completed, and while no other save of c is in
\* progress, the storage lists c and its file decodes to the data of the last completed
\* save of c (so a second save of the same data leaves it as it is), and a load of c
\* that completes in a usable data directory returns that data.
C25_SaveThenLoad ==
    /\ [](\A k \in Coords : Saved(k) =>
            /\ k \in chunk_index
            /\ Readable(k)
            /\ Loaded(region_files[k]) = The(last_saved[k]))
    /\ [][\A t \in 1..NumStorageTasks :
            (/\ storage_calls[t].pc = "load"
             /\ storage_calls'[t] = Idle
             /\ Saved(storage_calls[t].key)
             /\ data_dir_ok)
            => last_storage_call' = Outcome("load", storage_calls[t].key, FALSE, TRUE,
                                    The(last_saved[storage_calls[t].key]))]_vars

\* in an empty directory chunk 0 was saved twice, last with data 2, and the load that
\* followed returned data 2
C25_Witness ==
    /\ chunk_index = {<<0, 0, 0>>}
    /\ metadata_file = {}
    /\ unflushed = 2
    /\ last_saved[<<0, 0, 0>>] = Some(2)
    /\ last_storage_call = Outcome("load", <<0, 0, 0>>, FALSE, TRUE, 2)

\* C26: no load call raises to its caller.
C26_LoadNeverRaises == ~(last_storage_call.op = "load" /\ last_storage_call.raised)

\* C27: whenever exists has answered true for a coordinate, metadata.json lists the
\* coordinate.
C27_ExistsOnlyIfPersisted ==
    (last_storage_call.op = "exists" /\ last_storage_call.found) => last_storage_call.key \in metadata_file

\* C28: in a usable data directory there are never MetaEvery completed saves in a row
\* none of which wrote metadata.json.
C28_MetadataEveryTenSaves == data_dir_ok => unflushed < MetaEvery

------------------------------------------------------------------------

-----------------------------------------------------------------------------
(* OptimizedRenderer over the cache and the processor                      *)
(*                                                                         *)
(* The cache with its storage is seen through cache.get and cache.put: get *)
(* returns the data of a chunk the storage lists with a readable file (it  *)
(* suspends in the read), None for any other chunk; put lists the chunk    *)
(* and writes its file.  The processor is seen through process_chunk,      *)
(* which suspends and then returns a chunk, raises, or does not return.    *)
(* A chunk array is 0 when it has no block above zero.                     *)

SurfaceLow == 60      \* surface_y_range[0]
SurfaceHigh == 80     \* surface_y_range[1]
BlocksPerChunk == 16  \* world_y = (center_y + dy) * 16

Abs(n) == IF n < 0 THEN 0 - n ELSE n

\* int(view_dist * vertical_multiplier) with vertical_multiplier = 0.3
VerticalReach(dist) == (3 * dist) \div 10

InSurfaceBand(y) ==
    SurfaceLow <= y * BlocksPerChunk /\ y * BlocksPerChunk <= SurfaceHigh

\* faulty variant: a surface chunk is held to the vertical budget of the other chunks
SurfacePriority_BudgetOnly(center, dist) ==
    { <<center[1] + dx, center[2] + dy, center[3] + dz>> :
        <<dx, dy, dz>> \in
          { d \in ((0 - dist)..dist) \X ((0 - VerticalReach(dist))..VerticalReach(dist))
                                     \X ((0 - dist)..dist) :
              /\ d[1] * d[1] + d[3] * d[3] <= dist * dist
              /\ Abs(d[2]) <= dist \div 4 } }

\* OptimizedRenderer._get_new_visible_chunks_surface_priority
SurfacePriority(center, dist) ==
    { <<center[1] + dx, center[2] + dy, center[3] + dz>> :
        <<dx, dy, dz>> \in
          { d \in ((0 - dist)..dist) \X ((0 - VerticalReach(dist))..VerticalReach(dist))
                                     \X ((0 - dist)..dist) :
              /\ d[1] * d[1] + d[3] * d[3] <= dist * dist
              /\ \/ InSurfaceBand(center[2] + d[2])
                 \/ Abs(d[2]) <= dist \div 4 } }

\* OptimizedRenderer._get_new_visible_chunks
Visible(center, dist) ==
    { <<center[1] + dx, center[2] + dy, center[3] + dz>> :
        <<dx, dy, dz>> \in
          { d \in ((0 - dist)..dist) \X (((0 - dist) \div 2)..(dist \div 2))
                                     \X ((0 - dist)..dist) :
              d[1] * d[1] + d[2] * d[2] * 4 + d[3] * d[3] <= dist * dist } }

\* a call of _get_new_visible_chunks_surface_priority with what it returned
VisibleCall(center, dist) ==
    [center |-> center, view_dist |-> dist, chunks |-> SurfacePriority(center, dist)]

\* the center _fetch_chunk_data passes to _get_new_visible_chunks
FetchCenter == IF last_chunk_position = None THEN <<0, 0, 0>> ELSE The(last_chunk_position)

\* a _fetch_chunk_data call with what its caller does with the result; owner is the
\* update_viewer_position call that gathers it, 0 for the background loader
Fetch(key, owner, pc) == [key |-> key, owner |-> owner, pc |-> pc, data |-> 0]

Ended(f) == f.pc \in {"queued", "none", "raised"}

\* _fetch_chunk_data after cache.get returned None: a chunk in the visible range goes
\* to the processor, for any other chunk the result is None
AfterMiss(key) == IF key \in Visible(FetchCenter, view_distance) THEN "generate" ELSE "none"

\* _fetch_chunk_data up to its first suspension: cache.get returns None at once for a
\* chunk the storage does not list
FetchBegins(key) == IF key \in chunk_index THEN "get" ELSE AfterMiss(key)

\* the caller of _fetch_chunk_data with chunk array d in hand: _prepare_render_data
\* gives None for a chunk without blocks and `if chunk_data:` skips it; any other chunk
\* is added to loaded_chunks and put on the queue, and put suspends on a full queue
Handed(d) ==
    IF d = 0 THEN "none"
    ELSE IF Len(new_chunks_queue) < QueueMax THEN "queued"
    ELSE "put"

\* the loop of the background loader from the coordinates it has not reached yet
DropLoaded(todo, loaded) ==
    LET RECURSIVE go(_)
        go(i) == IF i > Len(todo) THEN <<>>
                 ELSE IF todo[i] \in loaded THEN go(i + 1)
                 ELSE SubSeq(todo, i, Len(todo))
    IN go(1)

\* the background loader takes up the first of rest: its cache.get suspends, because
\* the storage lists every chunk of the loader
LoaderGoesOn(fs, rest, listed) ==
    IF rest = <<>>
    THEN /\ loader' = [pc |-> "done", all_chunks |-> listed, todo |-> <<>>]
         /\ fetches' = fs
    ELSE /\ loader' = [pc |-> "fetch", all_chunks |-> listed, todo |-> Tail(rest)]
         /\ fetches' = Append(fs, Fetch(Head(rest), 0, "get"))

\* what the background loader does when its fetch f reaches pc: it sleeps after the
\* put, goes on to the next chunk after a None, and ends in its `except Exception`
LoaderFollows(f, pc, fs) ==
    IF fetches[f].owner # 0 \/ pc \in {"get", "generate", "store", "put"}
    THEN /\ fetches' = fs
         /\ UNCHANGED loader
    ELSE IF pc = "queued"
    THEN /\ fetches' = fs
         /\ loader' = [loader EXCEPT !.pc = "sleep"]
    ELSE IF pc = "raised"
    THEN /\ fetches' = fs
         /\ loader' = [loader EXCEPT !.pc = "failed", !.todo = <<>>]
    ELSE LoaderGoesOn(fs, DropLoaded(loader.todo, loaded_chunks), loader.all_chunks)

\* fetch f goes to pc with chunk array d
Settle(f, pc, d) ==
    /\ loaded_chunks' = IF pc \in {"queued", "put"}
                        THEN loaded_chunks \cup {fetches[f].key} ELSE loaded_chunks
    /\ new_chunks_queue' = IF pc = "queued"
                           THEN Append(new_chunks_queue, [key |-> fetches[f].key, data |-> d])
                           ELSE new_chunks_queue
    /\ LoaderFollows(f, pc, [fetches EXCEPT ![f].pc = pc, ![f].data = d])

\* the coordinates of a set in some order
Orders(S) == {s \in [1..Cardinality(S) -> S] : Range(s) = S}

\* surface_chunks + other_chunks, each in the order the set iteration yields
LoadOrders(S) ==
    {s \in Orders(S) : \A i, j \in 1..Len(s) :
        (i < j /\ InSurfaceBand(s[j][2])) => InSurfaceBand(s[i][2])}

\* the coordinates of a set in one order (the tasks of a gather may start in any order)
SeqOf(S) == CHOOSE s \in Orders(S) : TRUE

\* the tasks update_viewer_position hands to gather: one per coordinate of the visible
\* set that is not in loaded_chunks
NewFetches(order, u) ==
    [i \in 1..Len(SelectSeq(order, LAMBDA k : k \notin loaded_chunks)) |->
        Fetch(SelectSeq(order, LAMBDA k : k \notin loaded_chunks)[i], u, "start")]

\* OptimizedRenderer.update_viewer_position for a viewer in chunk center, up to gather.
\* (The prefetch task it creates changes the cache only.)
update_viewer_position(center) ==
    /\ Len(updates) < MaxUpdates
    /\ last_chunk_position' = Some(center)
    /\ fetches' = fetches \o NewFetches(SeqOf(SurfacePriority(center, view_distance)),
                                        Len(updates) + 1)
    /\ updates' = Append(updates,
                         [center |-> center,
                          pc |-> IF SurfacePriority(center, view_distance) \subseteq loaded_chunks
                                 THEN "returned" ELSE "gather"])
    /\ new_visible' = Some(VisibleCall(center, view_distance))
    /\ UNCHANGED <<view_distance, loaded_chunks, new_chunks_queue, loader, drain>>
    /\ UNCHANGED <<codec_vars, store_vars, proc_vars, cache_vars>>

\* a task of gather starts: _fetch_and_queue_chunk up to its first suspension
FetchStarts(f) ==
    /\ f \in 1..Len(fetches)
    /\ fetches[f].pc = "start"
    /\ Settle(f, FetchBegins(fetches[f].key), 0)
    /\ UNCHANGED <<view_distance, last_chunk_position, updates, drain, new_visible>>
    /\ UNCHANGED <<codec_vars, store_vars, proc_vars, cache_vars>>

\* cache.get returns in fetch f: the data of the file, or None for a file that
\* cannot be read
FetchGot(f) ==
    /\ f \in 1..Len(fetches)
    /\ fetches[f].pc = "get"
    /\ IF Readable(fetches[f].key)
       THEN Settle(f, Handed(Loaded(region_files[fetches[f].key])),
                   Loaded(region_files[fetches[f].key]))
       ELSE Settle(f, AfterMiss(fetches[f].key), 0)
    /\ UNCHANGED <<view_distance, last_chunk_position, updates, drain, new_visible>>
    /\ UNCHANGED <<codec_vars, store_vars, proc_vars, cache_vars>>

\* processor.process_chunk returns chunk array d in fetch f, which goes on to cache.put
Generated(f, d) ==
    /\ f \in 1..Len(fetches)
    /\ fetches[f].pc = "generate"
    /\ Settle(f, "store", d)
    /\ UNCHANGED <<view_distance, last_chunk_position, updates, drain, new_visible>>
    /\ UNCHANGED <<codec_vars, store_vars, proc_vars, cache_vars>>

\* processor.process_chunk raises in fetch f
GenerationFails(f) ==
    /\ f \in 1..Len(fetches)
    /\ fetches[f].pc = "generate"
    /\ Settle(f, "raised", 0)
    /\ UNCHANGED <<view_distance, last_chunk_position, updates, drain, new_visible>>
    /\ UNCHANGED <<codec_vars, store_vars, proc_vars, cache_vars>>

\* cache.put returns in fetch f: the chunk is in the storage
Stored(f) ==
    /\ f \in 1..Len(fetches)
    /\ fetches[f].pc = "store"
    /\ region_files' = Written(region_files, fetches[f].key, fetches[f].data)
    /\ chunk_index' = chunk_index \cup {fetches[f].key}
    /\ metadata_file' = IF Flushes(chunk_index, fetches[f].key)
                        THEN chunk_index \cup {fetches[f].key}
                        ELSE metadata_file
    /\ Settle(f, Handed(fetches[f].data), fetches[f].data)
    /\ UNCHANGED <<view_distance, last_chunk_position, updates, drain, new_visible>>
    /\ UNCHANGED <<data_dir_ok, lru_vars, direct_vars>>
    /\ UNCHANGED <<codec_vars, store_vars, proc_vars>>

\* the put of fetch f, suspended on the full queue, finds a free slot
PutResumes(f) ==
    /\ f \in 1..Len(fetches)
    /\ fetches[f].pc = "put"
    /\ Len(new_chunks_queue) < QueueMax
    /\ new_chunks_queue' = Append(new_chunks_queue,
                                  [key |-> fetches[f].key, data |-> fetches[f].data])
    /\ LoaderFollows(f, "queued", [fetches EXCEPT ![f].pc = "queued"])
    /\ UNCHANGED <<view_distance, last_chunk_position, loaded_chunks, updates, drain, new_visible>>
    /\ UNCHANGED <<codec_vars, store_vars, proc_vars, cache_vars>>

\* gather returns in update_viewer_position call u
UpdateReturns(u) ==
    /\ u \in 1..Len(updates)
    /\ updates[u].pc = "gather"
    /\ \A f \in 1..Len(fetches) : fetches[f].owner = u => Ended(fetches[f])
    /\ updates' = [updates EXCEPT ![u].pc = "returned"]
    /\ UNCHANGED <<view_distance, last_chunk_position, loaded_chunks, new_chunks_queue,
                   fetches, loader, drain, new_visible>>
    /\ UNCHANGED <<codec_vars, store_vars, proc_vars, cache_vars>>

\* OptimizedRenderer.start_background_loader: the task is created
start_background_loader ==
    /\ loader.pc = "idle"
    /\ loader' = [loader EXCEPT !.pc = "created"]
    /\ UNCHANGED <<view_distance, last_chunk_position, loaded_chunks, new_chunks_queue,
                   fetches, updates, drain, new_visible>>
    /\ UNCHANGED <<codec_vars, store_vars, proc_vars, cache_vars>>

\* _load_all_chunks_background starts: it lists the chunks of the storage, surface
\* chunks first, and fetches the first one that is not loaded
LoaderRuns ==
    /\ loader.pc = "created"
    /\ \E order \in LoadOrders(chunk_index) :
          LoaderGoesOn(fetches, DropLoaded(order, loaded_chunks), chunk_index)
    /\ UNCHANGED <<view_distance, last_chunk_position, loaded_chunks, new_chunks_queue,
                   updates, drain, new_visible>>
    /\ UNCHANGED <<codec_vars, store_vars, proc_vars, cache_vars>>

\* asyncio.sleep(0.001) returns in the background loader
LoaderWakes ==
    /\ loader.pc = "sleep"
    /\ LoaderGoesOn(fetches, DropLoaded(loader.todo, loaded_chunks), loader.all_chunks)
    /\ UNCHANGED <<view_distance, last_chunk_position, loaded_chunks, new_chunks_queue,
                   updates, drain, new_visible>>
    /\ UNCHANGED <<codec_vars, store_vars, proc_vars, cache_vars>>

LaterTimeout == 2     \* timeout = 0.01 for the chunks after the first, in ticks of 5 ms

\* OptimizedRenderer.get_new_chunks(timeout), up to its first wait_for
get_new_chunks(timeout) ==
    /\ drain.pc = "idle"
    /\ drain' = [pc |-> "waiting", timeout |-> timeout, waited |-> 0,
                 budget |-> timeout, elapsed |-> 0]
    /\ UNCHANGED <<view_distance, last_chunk_position, loaded_chunks, new_chunks_queue,
                   fetches, updates, loader, new_visible>>
    /\ UNCHANGED <<codec_vars, store_vars, proc_vars, cache_vars>>

\* new_chunks_queue.get() returns a payload to get_new_chunks, which waits for the
\* next one with the shorter timeout
ChunkTaken ==
    /\ drain.pc = "waiting"
    /\ new_chunks_queue # <<>>
    /\ new_chunks_queue' = Tail(new_chunks_queue)
    /\ drain' = [drain EXCEPT !.timeout = LaterTimeout, !.waited = 0]
    /\ UNCHANGED <<view_distance, last_chunk_position, loaded_chunks, fetches, updates,
                   loader, new_visible>>
    /\ UNCHANGED <<codec_vars, store_vars, proc_vars, cache_vars>>

\* one tick passes while get_new_chunks waits on the empty queue
Tick ==
    /\ drain.pc = "waiting"
    /\ new_chunks_queue = <<>>
    /\ drain.waited < drain.timeout
    /\ drain' = [drain EXCEPT !.waited = @ + 1, !.elapsed = @ + 1]
    /\ UNCHANGED <<view_distance, last_chunk_position, loaded_chunks, new_chunks_queue,
                   fetches, updates, loader, new_visible>>
    /\ UNCHANGED <<codec_vars, store_vars, proc_vars, cache_vars>>

\* the wait_for of get_new_chunks times out: the queue has been empty for the whole
\* timeout, and the call returns
TimesOut ==
    /\ drain.pc = "waiting"
    /\ new_chunks_queue = <<>>
    /\ drain.waited = drain.timeout
    /\ drain' = IdleDrain
    /\ UNCHANGED <<view_distance, last_chunk_position, loaded_chunks, new_chunks_queue,
                   fetches, updates, loader, new_visible>>
    /\ UNCHANGED <<codec_vars, store_vars, proc_vars, cache_vars>>

-----------------------------------------------------------------------------
(* SpecRenderer: one OptimizedRenderer under position updates, the         *)
(* background loader and a viewer that drains the queue                    *)

\* the viewer's chunk positions, in the surface band
Centers == {<<x, 4, 0>> : x \in 0..MaxCenter}

\* no run makes more fetches than this: one per update and visible chunk, and one per
\* chunk of the storage (two at the start, the others put there by a fetch)
MaxFetches ==
    (MaxUpdates + Cardinality(Centers))
        * Cardinality(SurfacePriority(<<0, 4, 0>>, MaxViewDistance)) + 2

\* the data directory the renderer starts over: empty, one surface chunk, a surface
\* chunk and a deep one, and the same with a file of the surface chunk that cannot
\* be read
RenderStores ==
    { EmptyStore,
      [index |-> {<<0, 4, 0>>}, files |-> (<<0, 4, 0>> :> Compressed(1))],
      [index |-> {<<0, 4, 0>>, <<0, 0, 0>>},
       files |-> (<<0, 4, 0>> :> Compressed(1)) @@ (<<0, 0, 0>> :> Compressed(1))],
      [index |-> {<<0, 4, 0>>, <<0, 0, 0>>},
       files |-> (<<0, 4, 0>> :> Junk) @@ (<<0, 0, 0>> :> Compressed(1))] }

InitRenderer ==
    /\ data_str = <<>>
    /\ decoded = NotCalled
    /\ pack_in = <<>>
    /\ blob = NotCalled
    /\ unpacked = NotCalled
    /\ InitStore
    /\ InitIdleProcessor
    /\ \E store \in RenderStores : ChunkCache(1, store)
    /\ \E distance \in 0..MaxViewDistance : OptimizedRenderer(distance)

NextRenderer ==
    \/ \E center \in Centers : update_viewer_position(center)
    \/ \E f \in 1..MaxFetches : FetchStarts(f)
    \/ \E f \in 1..MaxFetches : FetchGot(f)
    \/ \E f \in 1..MaxFetches, d \in 0..1 : Generated(f, d)
    \/ \E f \in 1..MaxFetches : GenerationFails(f)
    \/ \E f \in 1..MaxFetches : Stored(f)
    \/ \E f \in 1..MaxFetches : PutResumes(f)
    \/ \E u \in 1..MaxUpdates : UpdateReturns(u)
    \/ start_background_loader
    \/ LoaderRuns
    \/ LoaderWakes
    \/ \E timeout \in LaterTimeout..MaxTimeout : get_new_chunks(timeout)
    \/ ChunkTaken
    \/ Tick
    \/ TimesOut

SpecRenderer == InitRenderer /\ [][NextRenderer]_vars

-----------------------------------------------------------------------------
(* Claims about the OptimizedRenderer, checked under SpecRenderer *)

\* the put of fetch f is suspended on the full queue
Blocked(f) == fetches[f].pc = "put"

\* C29: a producer never waits on the queue of new chunks: no _fetch_and_queue_chunk
\* and no background loader is ever suspended in its put.
C29_ProducerNeverWaits == \A f \in 1..Len(fetches) : ~Blocked(f)

\* C30: a chunk that found the queue full and is not on the queue is not treated as
\* loaded, so that the next position update fetches it again.
C30_UnqueuedChunkNotLoaded ==
    \A f \in 1..Len(fetches) :
        (Blocked(f) /\ \A i \in 1..Len(new_chunks_queue) :
                           new_chunks_queue[i].key # fetches[f].key)
        => fetches[f].key \notin loaded_chunks

\* C33: every get_new_chunks(timeout) call returns within its timeout, also when
\* producers keep enqueuing chunks during the call: the call never waits on once
\* more time than its timeout has passed since it began.
C33_DrainBoundedByTimeout == drain.pc = "waiting" => drain.elapsed <= drain.budget

\* the chunks the background loader has fetched, in the order of its fetches
LoaderFetched == SelectSeq(fetches, LAMBDA f : f.owner = 0)

SurfaceFirst ==
    \A i, j \in 1..Len(LoaderFetched) :
        (i < j /\ InSurfaceBand(LoaderFetched[j].key[2]))
        => InSurfaceBand(LoaderFetched[i].key[2])

\* C34: the background loader fetches every chunk of the storage in the surface band
\* before any chunk outside the band, and when it has ended it has fetched every
\* chunk the storage listed that was not already loaded.
C34_LoaderSurfaceFirstAndComplete ==
    /\ SurfaceFirst
    /\ loader.pc \in {"done", "failed"} =>
          \A key \in loader.all_chunks :
              \/ key \in loaded_chunks
              \/ \E i \in 1..Len(LoaderFetched) : LoaderFetched[i].key = key

\* fetch f has put its payload on the queue of new chunks
Queued(f) == fetches[f].pc = "queued"

\* C39: no chunk is put on the queue of new chunks more than once, whatever the
\* interleaving of update_viewer_position calls and the background loader.
C39_QueuedAtMostOnce ==
    \A f, g \in 1..Len(fetches) :
        (Queued(f) /\ Queued(g) /\ fetches[f].key = fetches[g].key) => f = g

-----------------------------------------------------------------------------
(* SpecVisible: the visible set of a viewer, for the view distances the     *)
(* renderer starts with and the ones set_view_distance gives it.  No chunk  *)
(* is fetched: the data directory is empty and update_viewer_position is    *)
(* followed up to the set it computes.                                      *)

DistanceCap == 32        \* max_distance without processor.GPU_AVAILABLE
LeastDefault == 8        \* default_view_distance = min(16, int(8 + available_memory_gb / 2))
MostDefault == 16

\* the view distance of __init__: the ChunkProcessor object has no attribute
\* GPU_AVAILABLE (the module has), so the distance comes from the available memory
DefaultViewDistance(gb) == Min({MostDefault, LeastDefault + gb \div 2})

\* OptimizedRenderer.set_view_distance
set_view_distance(distance) ==
    /\ view_distance' = Min({distance, DistanceCap})
    /\ UNCHANGED <<last_chunk_position, loaded_chunks, new_chunks_queue, fetches, updates,
                   loader, drain, new_visible>>
    /\ UNCHANGED <<codec_vars, store_vars, proc_vars, cache_vars>>

\* update_viewer_position for a viewer in chunk center, up to the visible set
\* _get_new_visible_chunks_surface_priority returns
VisibleComputed(center) ==
    /\ last_chunk_position' = Some(center)
    /\ new_visible' = Some(VisibleCall(center, view_distance))
    /\ UNCHANGED <<view_distance, loaded_chunks, new_chunks_queue, fetches, updates,
                   loader, drain>>
    /\ UNCHANGED <<codec_vars, store_vars, proc_vars, cache_vars>>

ViewerChunks == {<<0, y, 0>> : y \in 0..MaxCenterY}

InitVisible ==
    /\ data_str = <<>>
    /\ decoded = NotCalled
    /\ pack_in = <<>>
    /\ blob = NotCalled
    /\ unpacked = NotCalled
    /\ InitStore
    /\ InitIdleProcessor
    /\ ChunkCache(1, EmptyStore)
    /\ \E gb \in 0..MaxFreeGb : OptimizedRenderer(DefaultViewDistance(gb))

NextVisible ==
    \/ \E distance \in 0..MaxSetDistance : set_view_distance(distance)
    \/ \E center \in ViewerChunks : VisibleComputed(center)

SpecVisible == InitVisible /\ [][NextVisible]_vars

-----------------------------------------------------------------------------
(* Claims about the visible set, checked under SpecVisible *)

\* the chunks within the horizontal view distance of a call, at the heights of the
\* surface band
BandWithinReach(call) ==
    { <<call.center[1] + dx, y, call.center[3] + dz>> :
        <<dx, y, dz>> \in
          { d \in ((0 - call.view_dist)..call.view_dist)
                    \X (0..(SurfaceHigh \div BlocksPerChunk))
                    \X ((0 - call.view_dist)..call.view_dist) :
              /\ d[1] * d[1] + d[3] * d[3] <= call.view_dist * call.view_dist
              /\ InSurfaceBand(d[2]) } }

\* C31: every chunk of the visible set update_viewer_position computed that is not
\* loaded is dispatched: its fetch reads it from the cache or the storage, or it
\* submits the chunk to the processor; no fetch ends with nothing done.
C31_VisibleDispatched ==
    new_visible # None =>
        \A key \in The(new_visible).chunks \ loaded_chunks :
            (The(new_visible).view_dist = view_distance) => FetchBegins(key) # "none"

\* C32: every chunk within the horizontal view distance whose world Y lies in the
\* surface band [60, 80] is in the visible set, and a chunk outside the band is in
\* the set only if its vertical offset is at most view_distance // 4.
C32_SurfaceBandAlwaysVisible ==
    new_visible # None =>
        /\ BandWithinReach(The(new_visible)) \subseteq The(new_visible).chunks
        /\ \A key \in The(new_visible).chunks :
              \/ InSurfaceBand(key[2])
              \/ Abs(key[2] - The(new_visible).center[2])
                    <= The(new_visible).view_dist \div 4

\* C32, amended: every chunk within the horizontal view distance whose vertical
\* offset is at most int(0.3 * view_distance) and whose world Y lies in the surface
\* band is in the visible set, and a chunk outside the band is in the set only if
\* its vertical offset is at most view_distance // 4.
C32_SurfaceBandVisibleWithinReach ==
    new_visible # None =>
        /\ \A key \in BandWithinReach(The(new_visible)) :
              Abs(key[2] - The(new_visible).center[2])
                    <= VerticalReach(The(new_visible).view_dist)
              => key \in The(new_visible).chunks
        /\ \A key \in The(new_visible).chunks :
              \/ InSurfaceBand(key[2])
              \/ Abs(key[2] - The(new_visible).center[2])
                    <= The(new_visible).view_dist \div 4

\* a visible set with a surface chunk beyond the vertical budget of the other
\* chunks, and with a chunk outside the band
C32_Witness ==
    /\ new_visible # None
    /\ \E key \in The(new_visible).chunks :
          /\ InSurfaceBand(key[2])
          /\ Abs(key[2] - The(new_visible).center[2]) > The(new_visible).view_dist \div 4
    /\ \E key \in The(new_visible).chunks : ~InSurfaceBand(key[2])

-----------------------------------------------------------------------------
(* SpecSpill: a ChunkProcessor with a memory budget of one chunk, asked    *)
(* for enough chunks that _cache_chunk swaps the oldest of them to disk    *)

SpillCoords == {<<x, 0, 0>> : x \in 0..MaxSpillCoord}

InitSpill ==
    /\ data_str = <<>>
    /\ decoded = NotCalled
    /\ pack_in = <<>>
    /\ blob = NotCalled
    /\ unpacked = NotCalled
    /\ InitStore
    /\ \E world \in Worlds : ChunkProcessor(1, FALSE, 1, world)
    /\ InitIdleCache
    /\ InitIdleRenderer

NextSpill ==
    \/ \E key \in SpillCoords : Len(calls) < MaxSpillCalls /\ process_chunk(key)
    \/ \E c \in 1..MaxSpillCalls : LoadReturns(c)
    \/ \E c \in 1..MaxSpillCalls : FutureReturns(c)
    \/ TakeBatch
    \/ FinishBatch
    \/ start

SpecSpill == InitSpill /\ [][NextSpill]_vars

-----------------------------------------------------------------------------
(* Claims about the disk spill, checked under SpecSpill *)

\* the chunks that were in the memory cache at some time: process_chunk returns a
\* chunk only from the cache or after it has cached it
EverCached == {calls[c].key : c \in {i \in 1..Len(calls) : calls[i].pc = "returned"}}

\* the chunks a step removes from the memory cache
Dropped == DOMAIN chunk_cache \ DOMAIN chunk_cache'

\* C35: no chunk is lost by a disk spill.  Every chunk that was ever cached is
\* resident in memory or recorded in chunks_on_disk, the saved index file equals
\* chunks_on_disk, and a chunk that leaves the memory cache is in its disk file and
\* in chunks_on_disk when it leaves.
C35_NoChunkLostBySpill ==
    /\ [](/\ EverCached \subseteq (DOMAIN chunk_cache \cup chunks_on_disk)
          /\ index_file = chunks_on_disk)
    /\ [][\A key \in Dropped :
            /\ key \in chunks_on_disk'
            /\ key \in DOMAIN chunk_files'
            /\ chunk_files'[key] = chunk_cache[key]]_vars

\* a chunk that was returned from the memory cache is no longer resident: it was
\* swapped to disk
C35_Witness ==
    \E key \in EverCached : key \notin DOMAIN chunk_cache /\ key \in DOMAIN chunk_files

-----------------------------------------------------------------------------
(* Claims about the pending request ids of the chunk store, checked under Spec *)

\* C36: once handle_chunk_response has processed the response to request id r, r is
\* not in REQUEST_TO_COORDS, whether the coordinates came from the body or from the
\* map.
C36_AnsweredRequestLeavesMap ==
    \A r \in last_response :
        HeaderRequestId(r.header) # None
        => The(HeaderRequestId(r.header)) \notin DOMAIN REQUEST_TO_COORDS

\* C37: a request whose send failed has no entry in REQUEST_TO_COORDS, so that its
\* chunk is not taken to be in flight.
C37_FailedSendLeavesNoEntry == \A r \in send_failed : r \notin DOMAIN REQUEST_TO_COORDS

====
